---- MODULE Spec2Model ----
(***************************************************************************)
(* A model of the astro-r2 image host: the R2Service class (naming policy, *)
(* image normalizer, upload, delete, list), the HTTP handlers              *)
(* /api/upload, /api/images, /api/auth/{login,logout,verify} and the       *)
(* session gate of lib/auth.ts.                                            *)
(*                                                                         *)
(* Strings the code takes apart (file names, MIME types, keys, tokens)     *)
(* are sequences of one-character strings; strings the code only compares *)
(* (passwords, error texts) are TLA+ strings.  An optional value is a      *)
(* sequence of length 0 (absent) or 1 (present).                           *)
(***************************************************************************)
EXTENDS Integers, Sequences, FiniteSets, TLC

VARIABLES
    env,     \* process environment: MAX_FILE_SIZE, ADMIN_PASSWORD, R2_PUBLIC_URL
    cookie,  \* the client's cookie jar entry 'auth-token' (None or Some)
    jarOp,   \* what wrote that entry last: "none", "login", "logout", "forge"
    issued,  \* the token values login has handed out so far
    store,   \* the bucket: its objects [Key, Body, ContentType, LastModified],
             \* in the order the store lists them
    now,     \* Date.now(), in milliseconds
    req,     \* the request handled last
    resp,    \* the response to it
    calls,   \* what the handler of req sent out: put, del, list, enc counts
    proc,    \* the last processImage invocation: arguments and result
    gen,     \* the last generateFileName invocation: arguments and result
    listing, \* the last listImages invocation: arguments and result
    gallery, \* the ImageGallery component of one browser page
    uploader,\* the ImageUploader component of one browser page
    wrapper, \* the AuthWrapper component of one browser page
    toasts   \* the list of the useToast hook

\* the components of the pages
ui == <<gallery, uploader, wrapper, toasts>>
vars == <<env, cookie, jarOp, issued, store, now, req, resp, calls, proc, gen,
          listing, gallery, uploader, wrapper, toasts>>

----------------------------------------------------------------------------
(* Bounds of the model *)

\* how many objects the bucket may hold before uploads are no longer explored
MaxObjects == 1
\* how many clock ticks are explored
MaxTicks == 1
\* the value of Date.now() in the initial state
StartTime == 41

----------------------------------------------------------------------------
(* Optional values, sequences of characters *)

None == << >>
Some(x) == <<x>>

\* s.startsWith(p)
StartsWith(s, p) == Len(s) >= Len(p) /\ SubSeq(s, 1, Len(p)) = p

\* the index of the last element of s that is c, 0 if there is none
RECURSIVE LastIndexOf(_, _)
LastIndexOf(s, c) ==
    IF s = << >> THEN 0
    ELSE IF s[Len(s)] = c THEN Len(s)
    ELSE LastIndexOf(SubSeq(s, 1, Len(s) - 1), c)

Digits == <<"0", "1", "2", "3", "4", "5", "6", "7", "8", "9">>
HexDigits == <<"0", "1", "2", "3", "4", "5", "6", "7", "8", "9",
               "a", "b", "c", "d", "e", "f">>

DigitValue(c) == CHOOSE i \in 0..9 : Digits[i + 1] = c
IsDigit(c) == \E i \in 1..10 : Digits[i] = c

\* Number.prototype.toString() of a non-negative integer, as in `${timestamp}`
RECURSIVE DecStr(_)
DecStr(n) == IF n < 10 THEN <<Digits[n + 1]>>
             ELSE DecStr(n \div 10) \o <<Digits[(n % 10) + 1]>>

\* Buffer.toString('hex'): two lower-case hex digits per byte
RECURSIVE HexStr(_)
HexStr(bytes) ==
    IF bytes = << >> THEN << >>
    ELSE <<HexDigits[(bytes[1] \div 16) + 1], HexDigits[(bytes[1] % 16) + 1]>>
         \o HexStr(Tail(bytes))

\* parseInt(s) for a string without sign or leading blanks: the value of the
\* longest prefix of decimal digits, NaN when that prefix is empty
NaN == -1
RECURSIVE DigitPrefix(_)
DigitPrefix(s) == IF s = << >> \/ ~IsDigit(s[1]) THEN << >>
                  ELSE <<s[1]>> \o DigitPrefix(Tail(s))
RECURSIVE DigitsValue(_)
DigitsValue(d) == IF d = << >> THEN 0
                  ELSE 10 * DigitsValue(SubSeq(d, 1, Len(d) - 1)) + DigitValue(d[Len(d)])
ParseInt(s) == IF DigitPrefix(s) = << >> THEN NaN ELSE DigitsValue(DigitPrefix(s))

\* mutant: the size check written with >=
NumGreaterOrEqual(a, b) == a # NaN /\ b # NaN /\ a >= b

\* a > b on JavaScript numbers: false as soon as one side is NaN
NumGreater(a, b) == a # NaN /\ b # NaN /\ a > b

----------------------------------------------------------------------------
(* MIME types and file extensions *)

ImageJpeg == <<"i", "m", "a", "g", "e", "/", "j", "p", "e", "g">>
ImagePng == <<"i", "m", "a", "g", "e", "/", "p", "n", "g">>
ImageGif == <<"i", "m", "a", "g", "e", "/", "g", "i", "f">>
ImageWebp == <<"i", "m", "a", "g", "e", "/", "w", "e", "b", "p">>
ImageSvg == <<"i", "m", "a", "g", "e", "/", "s", "v", "g", "+", "x", "m", "l">>
\* types a client can declare that the upload handler does not list
ImageBmp == <<"i", "m", "a", "g", "e", "/", "b", "m", "p">>
TextPlain == <<"t", "e", "x", "t", "/", "p", "l", "a", "i", "n">>
NoType == << >>

ImagePrefix == <<"i", "m", "a", "g", "e", "/">>
ExtWebp == <<"w", "e", "b", "p">>
ExtBin == <<"b", "i", "n">>

\* mimeTypes.extension(type): the first extension mime-db lists for the type,
\* false (here None) for a type it does not know
MimeExtension(t) ==
    CASE t = ImageJpeg -> Some(<<"j", "p", "e", "g">>)
      [] t = ImagePng -> Some(<<"p", "n", "g">>)
      [] t = ImageGif -> Some(<<"g", "i", "f">>)
      [] t = ImageWebp -> Some(ExtWebp)
      [] t = ImageSvg -> Some(<<"s", "v", "g">>)
      [] t = ImageBmp -> Some(<<"b", "m", "p">>)
      [] t = TextPlain -> Some(<<"t", "x", "t">>)
      [] OTHER -> None

\* mimeTypes.extension(mimeType) || 'bin'
ExtensionOrBin(t) == IF MimeExtension(t) = None THEN ExtBin ELSE MimeExtension(t)[1]

\* mutant: an allow-list that also lets text/plain through
AllowedTypesWithText == {ImageJpeg, ImagePng, ImageGif, ImageWebp, ImageSvg, TextPlain}

\* allowedTypes of the upload handler
AllowedTypes == {ImageJpeg, ImagePng, ImageGif, ImageWebp, ImageSvg}

----------------------------------------------------------------------------
(* R2Service.generateFileName *)

LowerCase == {"a", "b", "c", "d", "e", "f", "g", "h", "i", "j", "k", "l", "m",
              "n", "o", "p", "q", "r", "s", "t", "u", "v", "w", "x", "y", "z"}
UpperCase == {"A", "B", "C", "D", "E", "F", "G", "H", "I", "J", "K", "L", "M",
              "N", "O", "P", "Q", "R", "S", "T", "U", "V", "W", "X", "Y", "Z"}
\* the characters the class [a-zA-Z0-9.-] matches
KeptChars == LowerCase \cup UpperCase \cup {Digits[i] : i \in 1..10} \cup {".", "-"}

\* mutant: the replace without the g flag, which replaces the first match only
CleanNameFirstOnly(name) ==
    [i \in 1..Len(name) |->
        IF name[i] \notin KeptChars /\ \A j \in 1..(i - 1) : name[j] \in KeptChars
        THEN "_" ELSE name[i]]

\* originalName.replace(/[^a-zA-Z0-9.-]/g, '_')
CleanName(name) == [i \in 1..Len(name) |-> IF name[i] \in KeptChars THEN name[i] ELSE "_"]

\* originalName.split('.').pop() || '': what follows the last dot, the whole
\* name when it has no dot
LastDotPart(name) == SubSeq(name, LastIndexOf(name, ".") + 1, Len(name))

\* generateFileName(originalName, useHash), with the two values it reads from
\* outside: Date.now() and the bytes crypto.randomBytes(16) returned
GenerateFileName(originalName, useHash, timestamp, randomBytes) ==
    IF useHash
    THEN HexStr(randomBytes) \o <<".">> \o LastDotPart(originalName)
    ELSE DecStr(timestamp) \o <<"_">> \o CleanName(originalName)

\* originalName.replace(/\.[^/.]+$/, `.${ext}`): the last dot and what follows
\* it are replaced when at least one character follows and none of them is '/'
HasExtension(name) ==
    LET d == LastIndexOf(name, ".")
    IN  /\ d > 0
        /\ d < Len(name)
        /\ \A i \in (d + 1)..Len(name) : name[i] # "/"
ReplaceExtension(name, ext) ==
    IF HasExtension(name)
    THEN SubSeq(name, 1, LastIndexOf(name, ".") - 1) \o <<".">> \o ext
    ELSE name

----------------------------------------------------------------------------
(* R2Service.processImage *)

DefaultQuality == 80

\* options.quality || 80: 0 and NaN are falsy
EffectiveQuality(q) == IF q = 0 \/ q = NaN THEN DefaultQuality ELSE q

\* sharp's webp() takes an integer quality between 1 and 100 and throws on
\* anything else, inside the try block
EncoderAccepts(q) == q \in 1..100

\* mutant: the first return decided by the MIME type alone
SkipsEncodingByTypeOnly(mimeType, options) == ~StartsWith(mimeType, ImagePrefix)

\* the first return of processImage: no re-encoding is attempted
SkipsEncoding(mimeType, options) ==
    ~options.compressToWebp \/ ~StartsWith(mimeType, ImagePrefix)

\* mutant: the catch block returns the original buffer labelled as WebP
ProcessImageWebpOnFailure(buffer, mimeType, options, encoded) ==
    IF ~options.compressToWebp \/ ~StartsWith(mimeType, ImagePrefix)
    THEN [buffer |-> buffer, mimeType |-> mimeType, ext |-> ExtensionOrBin(mimeType)]
    ELSE IF encoded # None
         THEN [buffer |-> encoded[1], mimeType |-> ImageWebp, ext |-> ExtWebp]
         ELSE [buffer |-> buffer, mimeType |-> ImageWebp, ext |-> ExtWebp]

\* processImage(buffer, mimeType, options); encoded is what
\* sharp(buffer).webp({quality}).toBuffer() gave: None when it threw
ProcessImage(buffer, mimeType, options, encoded) ==
    IF SkipsEncoding(mimeType, options)
    THEN [buffer |-> buffer, mimeType |-> mimeType, ext |-> ExtensionOrBin(mimeType)]
    ELSE IF encoded # None
         THEN [buffer |-> encoded[1], mimeType |-> ImageWebp, ext |-> ExtWebp]
         ELSE [buffer |-> buffer, mimeType |-> mimeType, ext |-> ExtensionOrBin(mimeType)]

----------------------------------------------------------------------------
(* The session gate: lib/auth.ts *)

\* mutant: the gate only asks whether the cookie exists
CookiePresent(c) == c # None

\* mutant: the gate accepts only a value login has issued
CookieIssued(c) == c # None /\ c[1].value \in issued

\* isAuthenticated(context): the cookie exists and its value is not ''
IsAuthenticated(c) == c # None /\ c[1].value # << >>

----------------------------------------------------------------------------
(* Inputs the model explores *)

\* the values of the MAX_FILE_SIZE variable; the empty string stands for an
\* unset variable too, both being falsy
MaxFileSizeSettings == {<< >>, <<"2">>}
\* the values of ADMIN_PASSWORD, "" for unset or empty
AdminPasswordSettings == {"", "pw"}
PublicUrl == <<"/", "/", "c", "d", "n">>

\* the outcomes of crypto.randomBytes(32) in generateAuthToken
TokenBytes == {[i \in 1..32 |-> 165]}
\* cookie values a client can put into its jar by hand
ForgedValues == {<< >>, <<"x">>}

\* JSON bodies of a login request: None is a body request.json() rejects
LoginBodies == {None} \cup {Some([password |-> p]) : p \in {None, Some("pw"), Some("no"), Some("")}}

\* uploaded files: a PNG whose name has a blank, an SVG, a GIF of three bytes
\* whose name has no dot, a text file
NameSpacePng == <<"a", " ", "b", ".", "p", "n", "g">>
NameSvg == <<"v", ".", "s", "v", "g">>
NameNoDot == <<"p", "i", "c">>
NameTxt == <<"n", ".", "t", "x", "t">>
PngFile == [name |-> NameSpacePng, type |-> ImagePng, bytes |-> <<1, 2>>]
SvgFile == [name |-> NameSvg, type |-> ImageSvg, bytes |-> <<3>>]
GifFile == [name |-> NameNoDot, type |-> ImageGif, bytes |-> <<4, 5, 6>>]
TxtFile == [name |-> NameTxt, type |-> TextPlain, bytes |-> <<7>>]
BigTxtFile == [name |-> NameTxt, type |-> TextPlain, bytes |-> <<7, 8, 9>>]

\* a multipart form as the uploader page sends it; a form field is None when
\* the form does not have it
Form(file, useHashName, enableWebpCompression, quality) ==
    [ file |-> file, useHashName |-> useHashName,
      enableWebpCompression |-> enableWebpCompression, quality |-> quality ]
Quality50 == Some(<<"5", "0">>)
UploadForms ==
    { Form(None, Some("false"), Some("true"), Quality50),
      Form(Some(TxtFile), Some("false"), Some("true"), Quality50),
      Form(Some(BigTxtFile), Some("true"), Some("false"), Quality50),
      Form(Some(GifFile), Some("true"), Some("true"), None),
      Form(Some(PngFile), Some("false"), Some("true"), Quality50),
      Form(Some(PngFile), Some("true"), Some("false"), None),
      Form(Some(SvgFile), Some("false"), Some("true"), Quality50),
      Form(Some(SvgFile), Some("false"), Some("false"), Quality50) }
\* multipart bodies of an upload request: None is a body request.formData()
\* rejects
UploadBodies == {None} \cup {Some(f) : f \in UploadForms}
\* what the encoder may give for a buffer: it throws (None) or returns bytes
EncoderResults == {None, Some(<<0>>)}
\* the outcomes of crypto.randomBytes(16) in generateFileName
HashBytes == {[i \in 1..16 |-> 171]}
\* what a call of the object store may give: it succeeds (None) or throws an
\* error with a message
StoreResults == {None, Some("AccessDenied")}

----------------------------------------------------------------------------
(* The object store: a bucket the S3 client reads and writes *)

\* the characters of the model's keys, in the order of their code points
Ascii == <<" ", "#", "(", ")", "+", "-", ".", "/",
           "0", "1", "2", "3", "4", "5", "6", "7", "8", "9",
           "A", "B", "C", "D", "E", "F", "G", "H", "I", "J", "K", "L", "M",
           "N", "O", "P", "Q", "R", "S", "T", "U", "V", "W", "X", "Y", "Z",
           "_",
           "a", "b", "c", "d", "e", "f", "g", "h", "i", "j", "k", "l", "m",
           "n", "o", "p", "q", "r", "s", "t", "u", "v", "w", "x", "y", "z",
           "~">>
CharCode(c) == CHOOSE i \in 1..Len(Ascii) : Ascii[i] = c

\* the order in which the store lists keys: by code point, a proper prefix first
RECURSIVE KeyLess(_, _)
KeyLess(a, b) ==
    IF a = << >> THEN b # << >>
    ELSE IF b = << >> THEN FALSE
    ELSE IF a[1] = b[1] THEN KeyLess(Tail(a), Tail(b))
    ELSE CharCode(a[1]) < CharCode(b[1])

\* the keys of a bucket, and the object a bucket holds under a key
Keys(bucket) == {bucket[i].Key : i \in 1..Len(bucket)}
ObjectAt(bucket, key) == bucket[CHOOSE i \in 1..Len(bucket) : bucket[i].Key = key]

\* the bucket after a PutObjectCommand: the object takes the place of the one
\* that had its key, if there was one
PutInto(bucket, object) ==
    SelectSeq(bucket, LAMBDA o : KeyLess(o.Key, object.Key))
    \o <<object>>
    \o SelectSeq(bucket, LAMBDA o : KeyLess(object.Key, o.Key))

\* the bucket after a DeleteObjectCommand: a key the bucket does not hold is
\* not an error
DeleteFrom(bucket, key) == SelectSeq(bucket, LAMBDA o : o.Key # key)

----------------------------------------------------------------------------
(* Requests, responses *)

(* The components of the pages, as mounting leaves them *)

\* ImageGallery: the useState values, and the two loadImages(1) calls of the
\* two effects, which both run after the first render.  loads are the
\* loadImages calls waiting for their answer (the page each was called with),
\* loops the running deleteSelectedImages calls, alert the dialog the last
\* step of the component opened.  selectedImages is a Set, kept here in its
\* insertion order, which is the order a loop over it takes.
GalleryMounted ==
    [ images |-> << >>, loading |-> TRUE, error |-> None,
      selectedImages |-> << >>, currentPage |-> 1, hasMore |-> TRUE,
      loads |-> <<1, 1>>, loops |-> << >>, alert |-> None ]

\* ImageUploader: the useState values; nothing runs on mounting.  A preview
\* is [file, isProcessing, compressed, rejected]: compressed is the quality
\* compressedSize and compressedPreview were computed for, if they are set,
\* rejected tells that the last createCompressedPreview of the file that ended
\* was rejected.  picks are the running handleFiles calls, moves the running
\* updateCompressionQuality calls, runs the running uploadPreviewImages calls,
\* each waiting at its await; alert is the dialog the last step opened.
\* uploadedImages, which is only displayed, is left out.
UploaderMounted ==
    [ isUploading |-> FALSE, previewImages |-> << >>, quality |-> 80,
      useHashName |-> FALSE, enableWebpCompression |-> TRUE,
      picks |-> << >>, moves |-> << >>, runs |-> << >>, alert |-> None ]

\* AuthWrapper: the useState values, and the verify request of the effect.
\* verifying tells that checkAuthStatus waits for its answer, logouts counts
\* the handleLogout calls waiting for theirs, formShown that a LoginForm has
\* been rendered, by names the step that set isAuthenticated last.
WrapperMounted ==
    [ isAuthenticated |-> None, loading |-> TRUE,
      verifying |-> TRUE, logouts |-> 0, formShown |-> FALSE, by |-> "mount" ]

\* useToast: the empty list
NoToasts == << >>

\* no page is open: the components stay as mounting left them
PagesIdle ==
    /\ gallery = GalleryMounted
    /\ uploader = UploaderMounted
    /\ wrapper = WrapperMounted
    /\ toasts = NoToasts

----------------------------------------------------------------------------
(* Requests, responses *)

NoCalls == [put |-> 0, del |-> 0, list |-> 0, enc |-> 0]

\* new Response(JSON.stringify(body), {status})
Response(status, body) == [status |-> status, body |-> body]
ErrorBody(error) == [error |-> error]
\* mutant: an error body that leaves the details out
ErrorBodyWithoutDetails(error, details) == [error |-> error]
ErrorDetailsBody(error, details) == [error |-> error, details |-> details]

TypeOK ==
    /\ env.MAX_FILE_SIZE \in MaxFileSizeSettings
    /\ env.ADMIN_PASSWORD \in AdminPasswordSettings
    /\ cookie = None \/ Len(cookie) = 1
    /\ jarOp \in {"none", "login", "logout", "forge"}
    /\ now \in Nat
    /\ resp.status \in {0, 200, 400, 401, 500}
    /\ \A k \in {"put", "del", "list", "enc"} : calls[k] \in Nat
    /\ \A i \in 1..(Len(store) - 1) : KeyLess(store[i].Key, store[i + 1].Key)
    /\ listing = None \/ Len(listing) = 1

Init ==
    /\ env \in [MAX_FILE_SIZE : MaxFileSizeSettings,
                ADMIN_PASSWORD : AdminPasswordSettings,
                R2_PUBLIC_URL : {PublicUrl}]
    /\ cookie = None
    /\ jarOp = "none"
    /\ issued = {}
    /\ store = << >>
    /\ now = StartTime
    /\ req = [handler |-> "none"]
    /\ resp = Response(0, [none |-> TRUE])
    /\ calls = NoCalls
    /\ proc = None
    /\ gen = None
    /\ listing = None
    /\ PagesIdle

----------------------------------------------------------------------------
(* /api/auth/login, /api/auth/logout, /api/auth/verify *)

\* maxAge of the cookie login sets, in seconds
CookieMaxAge == 24 * 60 * 60

\* generateAuthToken()
GenerateAuthToken(randomBytes) == HexStr(randomBytes)

\* mutant: login without the comparison of the password
LoginOutcomeNoCompare(body, adminPassword) ==
    IF body = None
    THEN [status |-> 500, error |-> "Internal server error", sets |-> FALSE]
    ELSE IF adminPassword = ""
    THEN [status |-> 500,
          error |-> "Server configuration error: ADMIN_PASSWORD not set",
          sets |-> FALSE]
    ELSE [status |-> 200, error |-> "", sets |-> TRUE]

\* mutant: login without the test that ADMIN_PASSWORD is set
LoginOutcomeNoUnsetTest(body, adminPassword) ==
    IF body = None
    THEN [status |-> 500, error |-> "Internal server error", sets |-> FALSE]
    ELSE IF body[1].password # Some(adminPassword)
    THEN [status |-> 401, error |-> "Invalid password", sets |-> FALSE]
    ELSE [status |-> 200, error |-> "", sets |-> TRUE]

\* the response of POST /api/auth/login to a body, and whether it sets the cookie
LoginOutcome(body, adminPassword) ==
    IF body = None
    THEN [status |-> 500, error |-> "Internal server error", sets |-> FALSE]
    ELSE IF adminPassword = ""
    THEN [status |-> 500,
          error |-> "Server configuration error: ADMIN_PASSWORD not set",
          sets |-> FALSE]
    ELSE IF body[1].password # Some(adminPassword)
    THEN [status |-> 401, error |-> "Invalid password", sets |-> FALSE]
    ELSE [status |-> 200, error |-> "", sets |-> TRUE]

LoginPOST(body, randomBytes) ==
    LET out == LoginOutcome(body, env.ADMIN_PASSWORD)
        token == GenerateAuthToken(randomBytes)
    IN  /\ req' = [handler |-> "login", body |-> body]
        /\ IF out.sets
           THEN /\ cookie' = Some([value |-> token, maxAge |-> CookieMaxAge])
                /\ jarOp' = "login"
                /\ issued' = issued \cup {token}
                /\ resp' = Response(200, [success |-> TRUE, message |-> "Login successful"])
           ELSE /\ UNCHANGED <<cookie, jarOp, issued>>
                /\ resp' = Response(out.status, ErrorBody(out.error))
        /\ calls' = NoCalls
        /\ proc' = None
        /\ gen' = None
        /\ listing' = None
        /\ UNCHANGED <<env, store, now>>

\* mutant: a logout that answers 200 and leaves the cookie in the jar
LogoutKeepsCookie ==
    /\ req' = [handler |-> "logout"]
    /\ jarOp' = "logout"
    /\ resp' = Response(200, [success |-> TRUE, message |-> "Logout successful"])
    /\ calls' = NoCalls
    /\ proc' = None
    /\ gen' = None
    /\ listing' = None
    /\ UNCHANGED <<env, cookie, issued, store, now>>

LogoutPOST ==
    /\ req' = [handler |-> "logout"]
    /\ cookie' = None
    /\ jarOp' = "logout"
    /\ resp' = Response(200, [success |-> TRUE, message |-> "Logout successful"])
    /\ calls' = NoCalls
    /\ proc' = None
    /\ gen' = None
    /\ listing' = None
    /\ UNCHANGED <<env, issued, store, now>>

VerifyGET ==
    /\ req' = [handler |-> "verify"]
    /\ resp' = Response(IF IsAuthenticated(cookie) THEN 200 ELSE 401,
                        [authenticated |-> IsAuthenticated(cookie)])
    /\ calls' = NoCalls
    /\ proc' = None
    /\ gen' = None
    /\ listing' = None
    /\ UNCHANGED <<env, cookie, jarOp, issued, store, now>>

\* the client writes a cookie of its own making into its jar (a session
\* cookie, without maxAge)
ForgeCookie(v) ==
    /\ cookie' = Some([value |-> v, maxAge |-> 0])
    /\ cookie' # cookie
    /\ jarOp' = "forge"
    /\ UNCHANGED <<env, issued, store, now, req, resp, calls, proc, gen, listing>>
    /\ UNCHANGED ui

\* a millisecond passes
Tick ==
    /\ now < StartTime + MaxTicks
    /\ now' = now + 1
    /\ UNCHANGED <<env, cookie, jarOp, issued, store, req, resp, calls, proc, gen, listing>>
    /\ UNCHANGED ui

----------------------------------------------------------------------------
(* R2Service.uploadImage, R2Service.deleteImage *)

\* the options object the upload handler builds from the form
UploadOptions(form) ==
    [ useHashName |-> form.useHashName = Some("true"),
      compressToWebp |-> form.enableWebpCompression = Some("true"),
      quality |-> ParseInt(IF form.quality = None \/ form.quality = Some(<< >>)
                           THEN <<"8", "0">> ELSE form.quality[1]) ]

\* parseInt(MAX_FILE_SIZE || '10485760')
DefaultMaxFileSize == <<"1", "0", "4", "8", "5", "7", "6", "0">>
MaxSize(e) == ParseInt(IF e.MAX_FILE_SIZE = << >> THEN DefaultMaxFileSize
                       ELSE e.MAX_FILE_SIZE)

\* mutant: the url put together without the '/'
ImageInfoNoSlash(key, processed, publicUrl, time) ==
    [ key |-> key,
      url |-> publicUrl \o key,
      size |-> Len(processed.buffer),
      mimeType |-> processed.mimeType,
      uploadedAt |-> time ]

\* the value uploadImage returns
ImageInfo(key, processed, publicUrl, time) ==
    [ key |-> key,
      url |-> publicUrl \o <<"/">> \o key,
      size |-> Len(processed.buffer),
      mimeType |-> processed.mimeType,
      uploadedAt |-> time ]

\* the PutObjectCommand uploadImage sends
PutObject(key, processed, time) ==
    [ Key |-> key,
      Body |-> processed.buffer,
      ContentType |-> processed.mimeType,
      LastModified |-> time ]

\* uploadImage(file, file.name, options) for a File: the processed image and
\* the key it is stored under
UploadImage(file, options, encoded, time, randomBytes) ==
    LET processed == ProcessImage(file.bytes, file.type, options, encoded)
        newName == ReplaceExtension(file.name, processed.ext)
        key == GenerateFileName(newName, options.useHashName, time, randomBytes)
    IN  [processed |-> processed, newName |-> newName, key |-> key]

\* mutant: the checks of the upload handler without the size check
UploadRejectionNoSizeCheck(c, body, maxSize) ==
    IF ~IsAuthenticated(c)
    THEN Some(Response(401, ErrorBody("Authentication required")))
    ELSE IF body = None
    THEN Some(Response(500, ErrorDetailsBody("Upload failed", "formData")))
    ELSE IF body[1].file = None
    THEN Some(Response(400, ErrorBody("No file provided")))
    ELSE IF body[1].file[1].type \notin AllowedTypes
    THEN Some(Response(400, ErrorBody("Invalid file type. Only images are allowed.")))
    ELSE None

\* the checks of POST /api/upload before the upload proper: the response that
\* ends the request, None when the request passes them
UploadRejection(c, body, maxSize) ==
    IF ~IsAuthenticated(c)
    THEN Some(Response(401, ErrorBody("Authentication required")))
    ELSE IF body = None
    THEN Some(Response(500, ErrorDetailsBody("Upload failed", "formData")))
    ELSE IF body[1].file = None
    THEN Some(Response(400, ErrorBody("No file provided")))
    ELSE IF NumGreater(Len(body[1].file[1].bytes), maxSize)
    THEN Some(Response(400, ErrorBody("File size exceeds limit")))
    ELSE IF body[1].file[1].type \notin AllowedTypes
    THEN Some(Response(400, ErrorBody("Invalid file type. Only images are allowed.")))
    ELSE None

UploadPOST(body, encoded, randomBytes, putResult) ==
    LET rejection == UploadRejection(cookie, body, MaxSize(env))
    IN  /\ req' = [handler |-> "upload", body |-> body]
        /\ UNCHANGED <<env, cookie, jarOp, issued, now>>
        /\ IF rejection # None
           THEN /\ encoded = None
                /\ putResult = None
                /\ resp' = rejection[1]
                /\ calls' = NoCalls
                /\ proc' = None
                /\ gen' = None
                /\ listing' = None
                /\ UNCHANGED store
           ELSE LET file == body[1].file[1]
                    options == UploadOptions(body[1])
                    up == UploadImage(file, options, encoded, now, randomBytes)
                    encodes == ~SkipsEncoding(file.type, options)
                IN  \* the encoder's outcome is read only when it is invoked, and
                    \* it returns bytes only for a quality it accepts
                    /\ encodes \/ encoded = None
                    /\ encoded # None => EncoderAccepts(EffectiveQuality(options.quality))
                    /\ proc' = Some([buffer |-> file.bytes, mimeType |-> file.type,
                                     options |-> options, encoded |-> encoded,
                                     out |-> up.processed])
                    /\ gen' = Some([originalName |-> up.newName,
                                    useHash |-> options.useHashName,
                                    timestamp |-> now, randomBytes |-> randomBytes,
                                    out |-> up.key])
                    /\ listing' = None
                    /\ calls' = [NoCalls EXCEPT !.put = 1,
                                                !.enc = IF encodes THEN 1 ELSE 0]
                    /\ IF putResult = None
                       THEN /\ store' = PutInto(store,
                                                PutObject(up.key, up.processed, now))
                            /\ resp' = Response(200,
                                   [success |-> TRUE,
                                    data |-> ImageInfo(up.key, up.processed,
                                                       env.R2_PUBLIC_URL, now)])
                       ELSE /\ UNCHANGED store
                            /\ resp' = Response(500,
                                   ErrorDetailsBody("Upload failed", putResult[1]))

\* JSON bodies of a delete request: None is a body request.json() rejects
DeleteKeys == Keys(store) \cup {<<"g", "o", "n", "e">>}
DeleteBodies == {None} \cup {Some([key |-> k]) : k \in {None, Some(<< >>)}}
                \cup {Some([key |-> Some(k)]) : k \in DeleteKeys}

\* mutant: a delete handler that looks the key up first and answers 404 when
\* the bucket does not hold it
DeleteRequestChecked(body, delResult) ==
    /\ req' = [handler |-> "delete", body |-> body]
    /\ proc' = None
    /\ gen' = None
    /\ listing' = None
    /\ UNCHANGED <<env, cookie, jarOp, issued, now>>
    /\ IF body = None
       THEN /\ delResult = None
            /\ resp' = Response(500, ErrorDetailsBody("Failed to delete image", "json"))
            /\ calls' = NoCalls
            /\ UNCHANGED store
       ELSE IF body[1].key = None \/ body[1].key = Some(<< >>)
       THEN /\ delResult = None
            /\ resp' = Response(400, ErrorBody("No key provided"))
            /\ calls' = NoCalls
            /\ UNCHANGED store
       ELSE IF body[1].key[1] \notin Keys(store)
       THEN /\ delResult = None
            /\ resp' = Response(404, ErrorBody("Not found"))
            /\ calls' = [NoCalls EXCEPT !.list = 1]
            /\ UNCHANGED store
       ELSE /\ calls' = [NoCalls EXCEPT !.list = 1, !.del = 1]
            /\ IF delResult = None
               THEN /\ store' = DeleteFrom(store, body[1].key[1])
                    /\ resp' = Response(200, [success |-> TRUE,
                                              message |-> "Image deleted successfully"])
               ELSE /\ UNCHANGED store
                    /\ resp' = Response(500,
                           ErrorDetailsBody("Failed to delete image", delResult[1]))

\* mutant: a delete handler behind requireAuth, as the upload handler is
DeleteRequestGated(body, delResult) ==
    /\ req' = [handler |-> "delete", body |-> body]
    /\ proc' = None
    /\ gen' = None
    /\ listing' = None
    /\ UNCHANGED <<env, cookie, jarOp, issued, now>>
    /\ IF ~IsAuthenticated(cookie)
       THEN /\ delResult = None
            /\ resp' = Response(401, ErrorBody("Authentication required"))
            /\ calls' = NoCalls
            /\ UNCHANGED store
       ELSE IF body = None
       THEN /\ delResult = None
            /\ resp' = Response(500, ErrorDetailsBody("Failed to delete image", "json"))
            /\ calls' = NoCalls
            /\ UNCHANGED store
       ELSE IF body[1].key = None \/ body[1].key = Some(<< >>)
       THEN /\ delResult = None
            /\ resp' = Response(400, ErrorBody("No key provided"))
            /\ calls' = NoCalls
            /\ UNCHANGED store
       ELSE /\ calls' = [NoCalls EXCEPT !.del = 1]
            /\ IF delResult = None
               THEN /\ store' = DeleteFrom(store, body[1].key[1])
                    /\ resp' = Response(200, [success |-> TRUE,
                                              message |-> "Image deleted successfully"])
               ELSE /\ UNCHANGED store
                    /\ resp' = Response(500,
                           ErrorDetailsBody("Failed to delete image", delResult[1]))

\* mutant: a delete handler that takes only an absent key as missing and hands
\* an empty key to the store
DeleteRequestEmptyKey(body, delResult) ==
    /\ req' = [handler |-> "delete", body |-> body]
    /\ proc' = None
    /\ gen' = None
    /\ listing' = None
    /\ UNCHANGED <<env, cookie, jarOp, issued, now>>
    /\ IF body = None
       THEN /\ delResult = None
            /\ resp' = Response(500, ErrorDetailsBody("Failed to delete image", "json"))
            /\ calls' = NoCalls
            /\ UNCHANGED store
       ELSE IF body[1].key = None
       THEN /\ delResult = None
            /\ resp' = Response(400, ErrorBody("No key provided"))
            /\ calls' = NoCalls
            /\ UNCHANGED store
       ELSE /\ calls' = [NoCalls EXCEPT !.del = 1]
            /\ IF delResult = None
               THEN /\ store' = DeleteFrom(store, body[1].key[1])
                    /\ resp' = Response(200, [success |-> TRUE,
                                              message |-> "Image deleted successfully"])
               ELSE /\ UNCHANGED store
                    /\ resp' = Response(500,
                           ErrorDetailsBody("Failed to delete image", delResult[1]))

DeleteRequest(body, delResult) ==
    /\ req' = [handler |-> "delete", body |-> body]
    /\ proc' = None
    /\ gen' = None
    /\ listing' = None
    /\ UNCHANGED <<env, cookie, jarOp, issued, now>>
    /\ IF body = None
       THEN /\ delResult = None
            /\ resp' = Response(500, ErrorDetailsBody("Failed to delete image", "json"))
            /\ calls' = NoCalls
            /\ UNCHANGED store
       ELSE IF body[1].key = None \/ body[1].key = Some(<< >>)
       THEN /\ delResult = None
            /\ resp' = Response(400, ErrorBody("No key provided"))
            /\ calls' = NoCalls
            /\ UNCHANGED store
       ELSE /\ calls' = [NoCalls EXCEPT !.del = 1]
            /\ IF delResult = None
               THEN /\ store' = DeleteFrom(store, body[1].key[1])
                    /\ resp' = Response(200, [success |-> TRUE,
                                              message |-> "Image deleted successfully"])
               ELSE /\ UNCHANGED store
                    /\ resp' = Response(500,
                           ErrorDetailsBody("Failed to delete image", delResult[1]))

----------------------------------------------------------------------------
(* R2Service.listImages, GET /api/images *)

\* a + b and Math.min(a, b) on JavaScript numbers: NaN as soon as one side is
NumAdd(a, b) == IF a = NaN \/ b = NaN THEN NaN ELSE a + b
NumMin(a, b) == IF a = NaN \/ b = NaN THEN NaN ELSE IF a < b THEN a ELSE b

\* the most keys one ListObjectsV2 call asks for
PageMaximum == 1000

\* mutant: a slice that always starts at the first element
SliceFromStart(array, start, end) ==
    IF end = NaN THEN << >>
    ELSE SubSeq(array, 1, IF end < Len(array) THEN end ELSE Len(array))

\* array.slice(start, end) for a start that is a non-negative integer: an end
\* that is NaN counts as 0
Slice(array, start, end) ==
    IF end = NaN THEN << >>
    ELSE SubSeq(array, start + 1, IF end < Len(array) THEN end ELSE Len(array))

ApplicationOctetStream == <<"a", "p", "p", "l", "i", "c", "a", "t", "i", "o", "n", "/",
                            "o", "c", "t", "e", "t", "-", "s", "t", "r", "e", "a", "m">>
ImagePict == <<"i", "m", "a", "g", "e", "/", "x", "-", "p", "i", "c", "t">>

\* mimeTypes.lookup(key) || 'application/octet-stream': the type mime-db
\* lists for what follows the last dot of the key, or for the whole key when
\* it has no dot
MimeLookup(key) ==
    LET ext == LastDotPart(key)
    IN  CASE ext = <<"j", "p", "e", "g">> \/ ext = <<"j", "p", "g">> -> ImageJpeg
          [] ext = <<"p", "n", "g">> -> ImagePng
          [] ext = <<"g", "i", "f">> -> ImageGif
          [] ext = ExtWebp -> ImageWebp
          [] ext = <<"s", "v", "g">> -> ImageSvg
          [] ext = <<"b", "m", "p">> -> ImageBmp
          [] ext = <<"t", "x", "t">> -> TextPlain
          [] ext = <<"p", "i", "c">> -> ImagePict
          [] ext = ExtBin -> ApplicationOctetStream
          [] OTHER -> ApplicationOctetStream

\* what the store answers to a ListObjectsV2Command: the objects whose key
\* starts with the prefix, in the store's order, MaxKeys of them at most and
\* never more than a page; a MaxKeys that is no number is taken as a page
ListObjectsV2(bucket, prefix, maxKeys) ==
    LET matching == SelectSeq(bucket, LAMBDA o : StartsWith(o.Key, prefix))
        page == IF maxKeys = NaN \/ maxKeys > PageMaximum THEN PageMaximum ELSE maxKeys
    IN  SubSeq(matching, 1, IF page < Len(matching) THEN page ELSE Len(matching))

\* the element of allImages made of a listed object
ListedImage(object, publicUrl) ==
    [ key |-> object.Key,
      url |-> publicUrl \o <<"/">> \o object.Key,
      size |-> Len(object.Body),
      mimeType |-> MimeLookup(object.Key),
      uploadedAt |-> object.LastModified ]

\* the MaxKeys listImages asks the store for
FetchLimit(maxKeys, offset) == NumMin(NumAdd(maxKeys, offset), PageMaximum)

\* mutant: a listing that follows the store's continuation tokens to the end
\* of the bucket before it slices
ListImagesAllPages(bucket, publicUrl, prefix, maxKeys, offset) ==
    LET contents == SelectSeq(bucket, LAMBDA o : StartsWith(o.Key, prefix))
        allImages == [i \in 1..Len(contents) |-> ListedImage(contents[i], publicUrl)]
    IN  Slice(allImages, offset, NumAdd(offset, maxKeys))

\* listImages(prefix, maxKeys, offset), given the bucket the store lists
ListImages(bucket, publicUrl, prefix, maxKeys, offset) ==
    LET contents == ListObjectsV2(bucket, prefix, FetchLimit(maxKeys, offset))
        allImages == [i \in 1..Len(contents) |-> ListedImage(contents[i], publicUrl)]
    IN  Slice(allImages, offset, NumAdd(offset, maxKeys))

\* the search parameters of a list request; a parameter is None when the URL
\* does not have it
Query(limit, offset, prefix) == [limit |-> limit, offset |-> offset, prefix |-> prefix]

\* parseInt(searchParams.get('limit') || '50'), searchParams.get('prefix') || ''
DefaultLimit == <<"5", "0">>
QueryLimit(query) == ParseInt(IF query.limit = None \/ query.limit = Some(<< >>)
                              THEN DefaultLimit ELSE query.limit[1])
QueryPrefix(query) == IF query.prefix = None THEN << >> ELSE query.prefix[1]

\* the offset the handler hands to listImages: it hands none, and the default
\* of the parameter is 0
HandlerOffset(query) == 0

ListGET(query, listResult) ==
    LET prefix == QueryPrefix(query)
        limit == QueryLimit(query)
        offset == HandlerOffset(query)
        images == ListImages(store, env.R2_PUBLIC_URL, prefix, limit, offset)
    IN  /\ req' = [handler |-> "list", query |-> query]
        /\ calls' = [NoCalls EXCEPT !.list = 1]
        /\ proc' = None
        /\ gen' = None
        /\ UNCHANGED <<env, cookie, jarOp, issued, store, now>>
        /\ IF listResult = None
           THEN /\ listing' = Some([prefix |-> prefix, maxKeys |-> limit,
                                    offset |-> offset, out |-> images])
                /\ resp' = Response(200, [success |-> TRUE, data |-> images])
           ELSE /\ listing' = None
                /\ resp' = Response(500, ErrorDetailsBody("Failed to list images",
                                                          listResult[1]))

\* the list requests one client sends here
ListQueries == { Query(None, None, None),
                 Query(Some(<<"1">>), Some(<<"1">>), None) }

----------------------------------------------------------------------------
(* The server and one client *)

Login == \E body \in LoginBodies, bytes \in TokenBytes : LoginPOST(body, bytes) /\ UNCHANGED ui
Logout == LogoutPOST /\ UNCHANGED ui
Verify == VerifyGET /\ UNCHANGED ui
Forge == \E v \in ForgedValues : ForgeCookie(v)
\* uploads are explored while the bucket holds fewer than MaxObjects objects
Upload == \E body \in UploadBodies, encoded \in EncoderResults,
             bytes \in HashBytes, putResult \in StoreResults :
              /\ Len(store) < MaxObjects
              /\ UploadPOST(body, encoded, bytes, putResult)
              /\ UNCHANGED ui
Delete == \E body \in DeleteBodies, delResult \in StoreResults :
              DeleteRequest(body, delResult) /\ UNCHANGED ui
List == \E query \in ListQueries, listResult \in StoreResults :
            ListGET(query, listResult) /\ UNCHANGED ui

\* requests that follow each other within one millisecond; the clock advances
\* in the specifications of the helpers and of repeated uploads below
Next == Login \/ Logout \/ Verify \/ Forge \/ Upload \/ Delete \/ List

Spec == Init /\ [][Next]_vars

----------------------------------------------------------------------------
(* The two private helpers of R2Service on their own, over wider inputs *)

PureBuffers == {<< >>, <<1, 2>>, <<0>>}
PureMimeTypes == {ImageJpeg, ImagePng, ImageGif, ImageWebp, ImageSvg, ImageBmp,
                  TextPlain, NoType, <<"i", "m", "a", "g", "e">>}
\* options.quality: NaN stands for undefined too, both being falsy
PureQualities == {NaN, 0, 50, 100, 150}
PureOptions == [useHashName : {FALSE}, compressToWebp : BOOLEAN, quality : PureQualities]
PureNames == { NameSpacePng, NameSvg, NameNoDot, NameTxt, << >>,
               <<"a", ".", "b", ".", "c">>, <<"A", "-", "z", "_", "0", ".", "9">>,
               <<"x", "/", "y", ".", "p", "n", "g">>, <<"(", "1", ")", "~", ".", "#">>, <<".", "e", "n", "v">> }

CallProcessImage(buffer, mimeType, options, encoded) ==
    /\ SkipsEncoding(mimeType, options) => encoded = None
    /\ encoded # None => EncoderAccepts(EffectiveQuality(options.quality))
    /\ proc' = Some([buffer |-> buffer, mimeType |-> mimeType,
                     options |-> options, encoded |-> encoded,
                     out |-> ProcessImage(buffer, mimeType, options, encoded)])
    /\ calls' = [NoCalls EXCEPT !.enc = IF SkipsEncoding(mimeType, options) THEN 0 ELSE 1]
    /\ gen' = None
    /\ listing' = None
    /\ req' = [handler |-> "processImage"]
    /\ UNCHANGED <<env, cookie, jarOp, issued, store, now, resp>>

CallGenerateFileName(originalName, useHash, randomBytes) ==
    /\ gen' = Some([originalName |-> originalName, useHash |-> useHash,
                    timestamp |-> now, randomBytes |-> randomBytes,
                    out |-> GenerateFileName(originalName, useHash, now, randomBytes)])
    /\ listing' = None
    /\ calls' = NoCalls
    /\ proc' = None
    /\ req' = [handler |-> "generateFileName"]
    /\ UNCHANGED <<env, cookie, jarOp, issued, store, now, resp>>

Process == \E buffer \in PureBuffers, mimeType \in PureMimeTypes,
              options \in PureOptions, encoded \in EncoderResults :
               CallProcessImage(buffer, mimeType, options, encoded) /\ UNCHANGED ui
Generate == \E name \in PureNames, useHash \in BOOLEAN, bytes \in HashBytes :
               CallGenerateFileName(name, useHash, bytes) /\ UNCHANGED ui

NextPure == Process \/ Generate \/ Tick

SpecPure == Init /\ [][NextPure]_vars

----------------------------------------------------------------------------
(* Listing on its own: buckets filled beforehand, listImages called with    *)
(* every combination of arguments, the list handler, the gallery's pages    *)

\* a bucket of n objects as default-mode uploads leave them: keys
\* "1001_a.png", "1002_a.png", ... in the store's order
FilledKey(i) == DecStr(PageMaximum + i) \o <<"_", "a", ".", "p", "n", "g">>
FilledBucket(n) ==
    [i \in 1..n |-> [Key |-> FilledKey(i), Body |-> <<i % 2>>,
                     ContentType |-> ImagePng, LastModified |-> StartTime]]
\* empty, fewer objects than a page, two more than a page
BucketSizes == {0, 2, 5, PageMaximum + 2}

ListPrefixes == {<< >>, <<"2">>}
ListLimits == {0, 2, PageMaximum, PageMaximum + 1}
ListOffsets == {0, 1, PageMaximum, PageMaximum + 1}
ListQueriesWide ==
    { Query(limit, offset, None) :
        limit \in {None, Some(<<"2">>), Some(<<"x">>)},
        offset \in {None, Some(<<"0">>), Some(<<"1">>), Some(<<"3">>)} }

\* the pages the gallery asks for
GalleryPages == {1, 2}
ImagesPerPage == 1000
\* the URL loadImages(page) fetches
LoadImagesQuery(page) ==
    Query(Some(DecStr(ImagesPerPage)), Some(DecStr((page - 1) * ImagesPerPage)), None)

InitList ==
    /\ env = [MAX_FILE_SIZE |-> << >>, ADMIN_PASSWORD |-> "pw",
              R2_PUBLIC_URL |-> PublicUrl]
    /\ cookie = None
    /\ jarOp = "none"
    /\ issued = {}
    /\ store \in {FilledBucket(n) : n \in BucketSizes}
    /\ now = StartTime
    /\ req = [handler |-> "none"]
    /\ resp = Response(0, [none |-> TRUE])
    /\ calls = NoCalls
    /\ proc = None
    /\ gen = None
    /\ listing = None
    /\ PagesIdle

CallListImages(prefix, maxKeys, offset) ==
    /\ req' = [handler |-> "listImages"]
    /\ listing' = Some([prefix |-> prefix, maxKeys |-> maxKeys, offset |-> offset,
                        out |-> ListImages(store, env.R2_PUBLIC_URL, prefix,
                                           maxKeys, offset)])
    /\ calls' = [NoCalls EXCEPT !.list = 1]
    /\ proc' = None
    /\ gen' = None
    /\ UNCHANGED <<env, cookie, jarOp, issued, store, now, resp>>

\* loadImages(page) of the gallery, as far as the server sees it
LoadImages(page, listResult) == ListGET(LoadImagesQuery(page), listResult)

ListCall == \E prefix \in ListPrefixes, maxKeys \in ListLimits, offset \in ListOffsets :
                CallListImages(prefix, maxKeys, offset) /\ UNCHANGED ui
ListRequest == \E query \in ListQueriesWide, listResult \in StoreResults :
                   ListGET(query, listResult) /\ UNCHANGED ui
GalleryLoad == \E page \in GalleryPages, listResult \in StoreResults :
                   LoadImages(page, listResult) /\ UNCHANGED ui

NextList == ListCall \/ ListRequest \/ GalleryLoad

SpecList == InitList /\ [][NextList]_vars

----------------------------------------------------------------------------
(* Uploads that follow each other within a millisecond or across one: a    *)
(* client that is logged in, a bucket that may come to hold two objects     *)

\* how many objects the bucket may come to hold here
MaxStored == 2

\* the cookie of a client that has logged in
SessionCookie == Some([value |-> GenerateAuthToken(CHOOSE b \in TokenBytes : TRUE),
                       maxAge |-> CookieMaxAge])

InitUploads ==
    /\ env = [MAX_FILE_SIZE |-> << >>, ADMIN_PASSWORD |-> "pw",
              R2_PUBLIC_URL |-> PublicUrl]
    /\ cookie = SessionCookie
    /\ jarOp = "login"
    /\ issued = {SessionCookie[1].value}
    /\ store = << >>
    /\ now = StartTime
    /\ req = [handler |-> "none"]
    /\ resp = Response(0, [none |-> TRUE])
    /\ calls = NoCalls
    /\ proc = None
    /\ gen = None
    /\ listing = None
    /\ PagesIdle

\* another file of the name v.svg, with other bytes
OtherSvgFile == [name |-> NameSvg, type |-> ImageSvg, bytes |-> <<3, 3>>]
\* the bodies sent here: those of UploadBodies that ask for default-mode keys
\* (the model has one value for the random bytes of a random-mode key), and
\* the other file
DefaultModeBodies ==
    {body \in UploadBodies : body = None \/ body[1].useHashName # Some("true")}
    \cup {Some(Form(Some(OtherSvgFile), Some("false"), Some("false"), None))}

UploadAgain == \E body \in DefaultModeBodies, encoded \in EncoderResults,
                  bytes \in HashBytes, putResult \in StoreResults :
                   /\ UploadPOST(body, encoded, bytes, putResult)
                   /\ Len(store') <= MaxStored
                   /\ UNCHANGED ui

NextUploads == UploadAgain \/ Tick

SpecUploads == InitUploads /\ [][NextUploads]_vars

----------------------------------------------------------------------------
(* The gallery page: ImageGallery over a bucket filled beforehand.  A step  *)
(* of the component runs from an event or from the answer to a request up   *)
(* to the next await; a request is handled by the server when its answer   *)
(* is taken.                                                               *)

\* a button starts a loadImages call while fewer than this many wait for
\* their answer
MaxPending == 1
\* how many deleteSelectedImages calls may run at once
MaxLoops == 1
\* how many keys a deleteSelectedImages call is explored with
MaxBatch == 2

\* the server and the cookie jar
server == <<env, cookie, jarOp, issued, store, now, req, resp, calls, proc, gen, listing>>

\* how a fetch ends: with a response, or with an exception before the
\* request reached the server
FetchOutcomes == {"answered", "failed"}

\* the images the user clicks on: the first two of the bucket
TouchKeys == {FilledKey(1), FilledKey(2)}

\* texts the gallery shows
LoadFailedText == "load failed"
NetworkErrorText == "network error"
DeleteFailedText == "delete failed: "

RemoveAt(seq, i) == SubSeq(seq, 1, i - 1) \o SubSeq(seq, i + 1, Len(seq))
Without(seq, x) == SelectSeq(seq, LAMBDA e : e # x)
Elements(seq) == {seq[i] : i \in 1..Len(seq)}
ImageKeys(images) == [i \in 1..Len(images) |-> images[i].key]

\* the URL loadImages(page) fetches; the retry button hands loadImages the
\* click event, and the offset computed from it is NaN
GalleryQuery(page) ==
    IF page = NaN
    THEN Query(Some(DecStr(ImagesPerPage)), Some(<<"N", "a", "N">>), None)
    ELSE LoadImagesQuery(page)

\* fetch of the list: the server's part
FetchImages(page, outcome, listResult) ==
    IF outcome = "answered"
    THEN ListGET(GalleryQuery(page), listResult)
    ELSE listResult = None /\ UNCHANGED server

\* fetch of a delete: the server's part
FetchDelete(key, outcome, delResult) ==
    IF outcome = "answered"
    THEN DeleteRequest(Some([key |-> Some(key)]), delResult)
    ELSE delResult = None /\ UNCHANGED server

\* result.success && result.data, result.success
HasSuccess(body) == "success" \in DOMAIN body /\ body.success
HasData(body) == HasSuccess(body) /\ "data" \in DOMAIN body

\* loadImages from its first statement to the fetch
StartLoad(g) == [g EXCEPT !.loading = TRUE, !.alert = None]

\* loadImages from the answer to its end
EndLoad(g, outcome, body) ==
    IF outcome = "answered"
    THEN IF HasData(body)
         THEN [g EXCEPT !.images = body.data,
                        !.hasMore = (Len(body.data) = ImagesPerPage),
                        !.error = None, !.loading = FALSE, !.alert = None]
         ELSE [g EXCEPT !.error = Some(IF "error" \in DOMAIN body THEN body.error
                                       ELSE LoadFailedText),
                        !.loading = FALSE, !.alert = None]
    ELSE [g EXCEPT !.error = Some(NetworkErrorText), !.loading = FALSE, !.alert = None]

\* the toolbar, the images and the pager are rendered
GalleryShown == ~gallery.loading /\ gallery.error = None

\* the answer to a loadImages call of an effect or of a button arrives
LoadImagesAnswer(i, outcome, listResult) ==
    /\ i \in 1..Len(gallery.loads)
    /\ FetchImages(gallery.loads[i], outcome, listResult)
    /\ gallery' = [EndLoad(gallery, outcome, resp'.body) EXCEPT
                      !.loads = RemoveAt(gallery.loads, i)]
    /\ UNCHANGED <<uploader, wrapper, toasts>>

\* the refresh button
RefreshClick ==
    /\ GalleryShown
    /\ Len(gallery.loads) < MaxPending
    /\ gallery' = [StartLoad(gallery) EXCEPT
                      !.loads = Append(gallery.loads, gallery.currentPage)]
    /\ UNCHANGED <<server, uploader, wrapper, toasts>>

\* the retry button of the error screen: onClick={loadImages}
RetryClick ==
    /\ ~gallery.loading /\ gallery.error # None
    /\ Len(gallery.loads) < MaxPending
    /\ gallery' = [StartLoad(gallery) EXCEPT !.loads = Append(gallery.loads, NaN)]
    /\ UNCHANGED <<server, uploader, wrapper, toasts>>

toggleImageSelection(key) ==
    /\ GalleryShown
    /\ key \in Elements(ImageKeys(gallery.images))
    /\ gallery' = [gallery EXCEPT
                      !.selectedImages = IF key \in Elements(@) THEN Without(@, key)
                                         ELSE Append(@, key),
                      !.alert = None]
    /\ UNCHANGED <<server, uploader, wrapper, toasts>>

selectAllImages ==
    /\ GalleryShown
    /\ gallery' = [gallery EXCEPT
                      !.selectedImages =
                          IF Len(@) = Len(gallery.images) THEN << >>
                          ELSE ImageKeys(gallery.images),
                      !.alert = None]
    /\ UNCHANGED <<server, uploader, wrapper, toasts>>

\* deleteImage(key), from the click to its end
deleteImage(key, confirmed, outcome, delResult) ==
    /\ GalleryShown
    /\ key \in Elements(ImageKeys(gallery.images))
    /\ IF ~confirmed
       THEN /\ outcome = "failed" /\ delResult = None
            /\ gallery' = [gallery EXCEPT !.alert = None]
            /\ UNCHANGED server
       ELSE /\ FetchDelete(key, outcome, delResult)
            /\ gallery' =
                 IF outcome = "answered"
                 THEN IF HasSuccess(resp'.body)
                      THEN [gallery EXCEPT
                               !.images = SelectSeq(@, LAMBDA img : img.key # key),
                               !.selectedImages = Without(@, key),
                               !.alert = None]
                      ELSE [gallery EXCEPT
                               !.alert = Some(<<DeleteFailedText, resp'.body.error>>)]
                 ELSE [gallery EXCEPT
                          !.alert = Some(<<DeleteFailedText, NetworkErrorText>>)]
    /\ UNCHANGED <<uploader, wrapper, toasts>>

\* deleteSelectedImages from the click to the first fetch; its button is
\* rendered while keys are selected.  The loop runs over the selection and
\* reloads the page of the render the button was clicked in.
deleteSelectedImages(confirmed) ==
    /\ GalleryShown
    /\ Len(gallery.selectedImages) > 0
    /\ Len(gallery.selectedImages) <= MaxBatch
    /\ Len(gallery.loops) < MaxLoops
    /\ gallery' = IF confirmed
                  THEN [gallery EXCEPT
                           !.loops = Append(@, [keys |-> gallery.selectedImages,
                                                next |-> 1,
                                                page |-> gallery.currentPage,
                                                reloading |-> FALSE]),
                           !.alert = None]
                  ELSE [gallery EXCEPT !.alert = None]
    /\ UNCHANGED <<server, uploader, wrapper, toasts>>

\* mutant: a loop that ends at the first fetch that fails or is answered with
\* an error, and tells the user
LoopDeleteAnswerStopping(i, outcome, delResult) ==
    /\ i \in 1..Len(gallery.loops)
    /\ ~gallery.loops[i].reloading
    /\ LET loop == gallery.loops[i]
           last == loop.next = Len(loop.keys)
       IN  /\ FetchDelete(loop.keys[loop.next], outcome, delResult)
           /\ gallery' =
                IF outcome = "answered" /\ HasSuccess(resp'.body)
                THEN [gallery EXCEPT
                         !.loops[i].next = @ + 1,
                         !.loops[i].reloading = last,
                         !.loading = IF last THEN TRUE ELSE @,
                         !.alert = None]
                ELSE [gallery EXCEPT
                         !.loops = RemoveAt(@, i),
                         !.alert = Some(<<DeleteFailedText, NetworkErrorText>>)]
    /\ UNCHANGED <<uploader, wrapper, toasts>>

\* the fetch of a loop ends: the next fetch, or loadImages after the last
LoopDeleteAnswer(i, outcome, delResult) ==
    /\ i \in 1..Len(gallery.loops)
    /\ ~gallery.loops[i].reloading
    /\ LET loop == gallery.loops[i]
           last == loop.next = Len(loop.keys)
       IN  /\ FetchDelete(loop.keys[loop.next], outcome, delResult)
           /\ gallery' = [gallery EXCEPT
                             !.loops[i].next = @ + 1,
                             !.loops[i].reloading = last,
                             !.loading = IF last THEN TRUE ELSE @,
                             !.alert = None]
    /\ UNCHANGED <<uploader, wrapper, toasts>>

\* the loadImages of a loop ends, and the loop with it
LoopReloadAnswer(i, outcome, listResult) ==
    /\ i \in 1..Len(gallery.loops)
    /\ gallery.loops[i].reloading
    /\ FetchImages(gallery.loops[i].page, outcome, listResult)
    /\ gallery' = [EndLoad(gallery, outcome, resp'.body) EXCEPT
                      !.selectedImages = << >>,
                      !.loops = RemoveAt(gallery.loops, i)]
    /\ UNCHANGED <<uploader, wrapper, toasts>>

\* the bucket holds two objects.  With fewer objects than imagesPerPage
\* hasMore is false after every load that sets images, so the pager, which is
\* rendered with images only, has both its buttons disabled and currentPage
\* stays 1.
GalleryBuckets == {FilledBucket(2)}

InitGallery ==
    /\ env = [MAX_FILE_SIZE |-> << >>, ADMIN_PASSWORD |-> "pw",
              R2_PUBLIC_URL |-> PublicUrl]
    /\ cookie = None
    /\ jarOp = "none"
    /\ issued = {}
    /\ store \in GalleryBuckets
    /\ now = StartTime
    /\ req = [handler |-> "none"]
    /\ resp = Response(0, [none |-> TRUE])
    /\ calls = NoCalls
    /\ proc = None
    /\ gen = None
    /\ listing = None
    /\ PagesIdle

Loaded == \E i \in 1..Len(gallery.loads), outcome \in FetchOutcomes, listResult \in StoreResults :
              LoadImagesAnswer(i, outcome, listResult)
Toggled == \E key \in TouchKeys : toggleImageSelection(key)
DeletedOne == \E key \in TouchKeys, confirmed \in BOOLEAN, outcome \in FetchOutcomes,
                 delResult \in StoreResults :
                  deleteImage(key, confirmed, outcome, delResult)
LoopStarted == \E confirmed \in BOOLEAN : deleteSelectedImages(confirmed)
LoopDeleted == \E i \in 1..Len(gallery.loops), outcome \in FetchOutcomes, delResult \in StoreResults :
                   LoopDeleteAnswer(i, outcome, delResult)
LoopReloaded == \E i \in 1..Len(gallery.loops), outcome \in FetchOutcomes, listResult \in StoreResults :
                    LoopReloadAnswer(i, outcome, listResult)

NextGallery ==
    \/ Loaded \/ RefreshClick \/ RetryClick
    \/ Toggled \/ selectAllImages \/ DeletedOne
    \/ LoopStarted \/ LoopDeleted \/ LoopReloaded

SpecGallery == InitGallery /\ [][NextGallery]_vars

----------------------------------------------------------------------------
(* The uploader page: ImageUploader in the browser of a client that has     *)
(* logged in.  A step runs from an event, from the end of a compression or  *)
(* from the answer to an upload request up to the next await.              *)

\* how many handleFiles calls may run at once
MaxPicks == 1
\* how many updateCompressionQuality calls may run at once
MaxMoves == 2

\* the positions of the quality slider that are explored
SliderQualities == {50, 90}
\* the files a drop, a paste or the file dialog hands over
DroppedLists == {<<PngFile>>, <<SvgFile, PngFile>>, <<TxtFile>>}

\* texts of the dialogs
UploadFailedText == "upload failed: "
UploadErrorText == "upload error: "
UnknownErrorText == "unknown error"
ChooseImagesText == "choose image files"

BoolStr(b) == IF b THEN "true" ELSE "false"

\* the condition under which a compressed preview is made
Compressible(file, enable) ==
    enable /\ StartsWith(file.type, ImagePrefix) /\ file.type # ImageSvg

NewPreview(file) ==
    [file |-> file, isProcessing |-> TRUE, compressed |-> None, rejected |-> FALSE]

\* prev.map(img => img.file === file ? {...img, isProcessing} : img)
SetProcessing(previews, file, flag) ==
    [i \in 1..Len(previews) |->
        IF previews[i].file = file
        THEN [previews[i] EXCEPT !.isProcessing = flag] ELSE previews[i]]

\* the three setPreviewImages calls that follow a createCompressedPreview:
\* after its result, or in the catch
AfterCompression(previews, file, quality, resolved) ==
    [i \in 1..Len(previews) |->
        IF previews[i].file = file
        THEN IF resolved
             THEN [previews[i] EXCEPT !.compressed = Some(quality),
                                      !.isProcessing = FALSE, !.rejected = FALSE]
             ELSE [previews[i] EXCEPT !.isProcessing = FALSE, !.rejected = TRUE]
        ELSE previews[i]]

PreviewFiles(previews) == [i \in 1..Len(previews) |-> previews[i].file]

\* the loop of handleFiles from a file on, up to the first file whose
\* processPreviewImage awaits a compression: todo are that file and the files
\* after it
RECURSIVE PreviewUntilAwait(_, _, _)
PreviewUntilAwait(previews, files, enable) ==
    IF files = << >> THEN [previews |-> previews, todo |-> << >>]
    ELSE LET added == Append(previews, NewPreview(Head(files)))
         IN  IF Compressible(Head(files), enable)
             THEN [previews |-> added, todo |-> files]
             ELSE PreviewUntilAwait(SetProcessing(added, Head(files), FALSE),
                                    Tail(files), enable)

\* handleFiles from a drop, a paste or the file dialog
handleFiles(files) ==
    LET imageFiles == SelectSeq(files, LAMBDA f : StartsWith(f.type, ImagePrefix))
        run == PreviewUntilAwait(<< >>, imageFiles, uploader.enableWebpCompression)
    IN  /\ Len(uploader.picks) < MaxPicks
        /\ uploader' =
             IF imageFiles = << >>
             THEN [uploader EXCEPT !.alert = Some(<<ChooseImagesText>>)]
             ELSE [uploader EXCEPT
                      !.previewImages = run.previews,
                      !.picks = IF run.todo = << >> THEN @
                                ELSE Append(@, [todo |-> run.todo,
                                                quality |-> uploader.quality,
                                                enable |-> uploader.enableWebpCompression]),
                      !.alert = None]
        /\ UNCHANGED <<server, gallery, wrapper, toasts>>

\* the compression a handleFiles call waits for ends
PickCompressed(i, resolved) ==
    /\ i \in 1..Len(uploader.picks)
    /\ LET pick == uploader.picks[i]
           done == AfterCompression(uploader.previewImages, Head(pick.todo),
                                    pick.quality, resolved)
           run == PreviewUntilAwait(done, Tail(pick.todo), pick.enable)
       IN  uploader' = [uploader EXCEPT
                           !.previewImages = run.previews,
                           !.picks = IF run.todo = << >> THEN RemoveAt(@, i)
                                     ELSE [@ EXCEPT ![i].todo = run.todo],
                           !.alert = None]
    /\ UNCHANGED <<server, gallery, wrapper, toasts>>

\* updateCompressionQuality(newQuality) from the slider to its first await;
\* the slider is rendered while the compression is enabled
updateCompressionQuality(newQuality) ==
    LET todo == SelectSeq(PreviewFiles(uploader.previewImages),
                          LAMBDA f : Compressible(f, uploader.enableWebpCompression))
    IN  /\ uploader.enableWebpCompression
        /\ newQuality # uploader.quality
        /\ Len(uploader.moves) < MaxMoves
        /\ uploader' =
             [uploader EXCEPT
                 !.quality = newQuality,
                 !.previewImages = IF todo = << >> THEN @
                                   ELSE SetProcessing(@, Head(todo), TRUE),
                 !.moves = IF todo = << >> THEN @
                           ELSE Append(@, [todo |-> todo, quality |-> newQuality]),
                 !.alert = None]
        /\ UNCHANGED <<server, gallery, wrapper, toasts>>

\* the compression an updateCompressionQuality call waits for ends
MoveCompressed(i, resolved) ==
    /\ i \in 1..Len(uploader.moves)
    /\ LET move == uploader.moves[i]
           done == AfterCompression(uploader.previewImages, Head(move.todo),
                                    move.quality, resolved)
           rest == Tail(move.todo)
       IN  uploader' = [uploader EXCEPT
                           !.previewImages = IF rest = << >> THEN done
                                             ELSE SetProcessing(done, Head(rest), TRUE),
                           !.moves = IF rest = << >> THEN RemoveAt(@, i)
                                     ELSE [@ EXCEPT ![i].todo = rest],
                           !.alert = None]
    /\ UNCHANGED <<server, gallery, wrapper, toasts>>

\* mutant: an upload button that is enabled whenever it is rendered
UploadButtonAlwaysEnabled == uploader.previewImages # << >>

\* the upload button is rendered with the previews, and disabled while an
\* upload runs or a preview is processing
UploadButtonEnabled ==
    /\ uploader.previewImages # << >>
    /\ ~uploader.isUploading
    /\ \A i \in 1..Len(uploader.previewImages) : ~uploader.previewImages[i].isProcessing

\* uploadPreviewImages from the click to its first fetch
uploadPreviewImages ==
    /\ UploadButtonEnabled
    /\ uploader' = [uploader EXCEPT
                       !.isUploading = TRUE,
                       !.runs = Append(@, [todo |-> PreviewFiles(uploader.previewImages),
                                           quality |-> uploader.quality,
                                           useHashName |-> uploader.useHashName,
                                           enable |-> uploader.enableWebpCompression]),
                       !.alert = None]
    /\ UNCHANGED <<server, gallery, wrapper, toasts>>

\* the form uploadFile sends
UploadForm(file, run) ==
    Form(Some(file), Some(BoolStr(run.useHashName)), Some(BoolStr(run.enable)),
         Some(DecStr(run.quality)))

\* mutant: a loop that gives up at the first upload that fails or throws,
\* without its last two statements
UploadAnswerStopping(i, outcome, encoded, randomBytes, putResult) ==
    /\ i \in 1..Len(uploader.runs)
    /\ LET run == uploader.runs[i]
           file == Head(run.todo)
           rest == Tail(run.todo)
       IN  /\ IF outcome = "answered"
              THEN UploadPOST(Some(UploadForm(file, run)), encoded, randomBytes, putResult)
              ELSE encoded = None /\ putResult = None /\ UNCHANGED server
           /\ uploader' =
                IF outcome = "answered" /\ HasData(resp'.body)
                THEN [uploader EXCEPT
                         !.alert = None,
                         !.runs = IF rest = << >> THEN RemoveAt(@, i)
                                  ELSE [@ EXCEPT ![i].todo = rest],
                         !.previewImages = IF rest = << >> THEN << >> ELSE @,
                         !.isUploading = IF rest = << >> THEN FALSE ELSE @]
                ELSE [uploader EXCEPT
                         !.alert = Some(<<UploadErrorText, file.name, NetworkErrorText>>),
                         !.runs = RemoveAt(@, i)]
    /\ UNCHANGED <<gallery, wrapper, toasts>>

\* the fetch of an uploadPreviewImages call ends: the next fetch, or the end
\* of the call after the last
UploadAnswer(i, outcome, encoded, randomBytes, putResult) ==
    /\ i \in 1..Len(uploader.runs)
    /\ LET run == uploader.runs[i]
           file == Head(run.todo)
           rest == Tail(run.todo)
       IN  /\ IF outcome = "answered"
              THEN UploadPOST(Some(UploadForm(file, run)), encoded, randomBytes, putResult)
              ELSE encoded = None /\ putResult = None /\ UNCHANGED server
           /\ uploader' =
                [uploader EXCEPT
                    !.alert = IF outcome = "answered"
                              THEN IF HasData(resp'.body) THEN None
                                   ELSE Some(<<UploadFailedText, file.name,
                                               IF "error" \in DOMAIN resp'.body
                                               THEN resp'.body.error
                                               ELSE UnknownErrorText>>)
                              ELSE Some(<<UploadErrorText, file.name, NetworkErrorText>>),
                    !.runs = IF rest = << >> THEN RemoveAt(@, i)
                             ELSE [@ EXCEPT ![i].todo = rest],
                    !.previewImages = IF rest = << >> THEN << >> ELSE @,
                    !.isUploading = IF rest = << >> THEN FALSE ELSE @]
    /\ UNCHANGED <<gallery, wrapper, toasts>>

removePreviewImage(file) ==
    /\ file \in Elements(PreviewFiles(uploader.previewImages))
    /\ uploader' = [uploader EXCEPT
                       !.previewImages = SelectSeq(@, LAMBDA img : img.file # file),
                       !.alert = None]
    /\ UNCHANGED <<server, gallery, wrapper, toasts>>

clearPreviews ==
    /\ uploader.previewImages # << >>
    /\ uploader' = [uploader EXCEPT !.previewImages = << >>, !.alert = None]
    /\ UNCHANGED <<server, gallery, wrapper, toasts>>

\* the two checkboxes
setUseHashName ==
    /\ uploader' = [uploader EXCEPT !.useHashName = ~@, !.alert = None]
    /\ UNCHANGED <<server, gallery, wrapper, toasts>>
setEnableWebpCompression ==
    /\ uploader' = [uploader EXCEPT !.enableWebpCompression = ~@, !.alert = None]
    /\ UNCHANGED <<server, gallery, wrapper, toasts>>

InitUploader ==
    /\ env = [MAX_FILE_SIZE |-> << >>, ADMIN_PASSWORD |-> "pw",
              R2_PUBLIC_URL |-> PublicUrl]
    /\ cookie = SessionCookie
    /\ jarOp = "login"
    /\ issued = {SessionCookie[1].value}
    /\ store = << >>
    /\ now = StartTime
    /\ req = [handler |-> "none"]
    /\ resp = Response(0, [none |-> TRUE])
    /\ calls = NoCalls
    /\ proc = None
    /\ gen = None
    /\ listing = None
    /\ PagesIdle

FilesHandled == \E files \in DroppedLists : handleFiles(files)
PickProcessed == \E i \in 1..Len(uploader.picks), resolved \in BOOLEAN :
                     PickCompressed(i, resolved)
SliderMoved == \E q \in SliderQualities : updateCompressionQuality(q)
MoveProcessed == \E i \in 1..Len(uploader.moves), resolved \in BOOLEAN :
                     MoveCompressed(i, resolved)
\* the fetch throws before the request reaches the server
UploadThrew == \E i \in 1..Len(uploader.runs), bytes \in HashBytes :
                   UploadAnswer(i, "failed", None, bytes, None)
\* the server answers the request
UploadGotAnswer == \E i \in 1..Len(uploader.runs), encoded \in EncoderResults,
                      bytes \in HashBytes, putResult \in StoreResults :
                       UploadAnswer(i, "answered", encoded, bytes, putResult)
UploadAnswered == UploadThrew \/ UploadGotAnswer
PreviewRemoved == \E file \in {PngFile, SvgFile} : removePreviewImage(file)

\* choosing files and uploading them, the options as they are on mounting
NextUploader ==
    \/ FilesHandled \/ PickProcessed
    \/ uploadPreviewImages \/ UploadAnswered
    \/ PreviewRemoved \/ clearPreviews

SpecUploader == InitUploader /\ [][NextUploader]_vars

\* every fetch of an upload ends: it is answered or it throws
SpecUploaderLive == SpecUploader /\ WF_vars(UploadAnswered)

\* The slider and the checkboxes, over previews that handleFiles has made and
\* whose compressions, at the quality of mounting, have all ended
ReadyPreview(file) ==
    [file |-> file, isProcessing |-> FALSE, rejected |-> FALSE,
     compressed |-> IF Compressible(file, UploaderMounted.enableWebpCompression)
                    THEN Some(UploaderMounted.quality) ELSE None]
ReadyLists == {<<PngFile>>, <<SvgFile, PngFile>>, <<PngFile, GifFile>>}

InitSlider ==
    /\ env = [MAX_FILE_SIZE |-> << >>, ADMIN_PASSWORD |-> "pw",
              R2_PUBLIC_URL |-> PublicUrl]
    /\ cookie = SessionCookie
    /\ jarOp = "login"
    /\ issued = {SessionCookie[1].value}
    /\ store = << >>
    /\ now = StartTime
    /\ req = [handler |-> "none"]
    /\ resp = Response(0, [none |-> TRUE])
    /\ calls = NoCalls
    /\ proc = None
    /\ gen = None
    /\ listing = None
    /\ gallery = GalleryMounted
    /\ wrapper = WrapperMounted
    /\ toasts = NoToasts
    /\ \E files \in ReadyLists :
          uploader = [UploaderMounted EXCEPT
                         !.previewImages = [i \in 1..Len(files) |-> ReadyPreview(files[i])]]

NextSlider ==
    \/ SliderMoved \/ MoveProcessed \/ PreviewRemoved
    \/ setUseHashName \/ setEnableWebpCompression

SpecSlider == InitSlider /\ [][NextSlider]_vars

----------------------------------------------------------------------------
(* AuthWrapper *)

\* handleLogout calls of one page that wait for their answer at a time
MaxLogouts == 2

\* what AuthWrapper renders
Rendered(w) ==
    IF w.loading THEN "spinner"
    ELSE IF w.isAuthenticated # Some(TRUE) THEN "LoginForm"
    ELSE "children"

\* response.ok
ResponseOk(response) == response.status \in 200..299

\* mutant: a checkAuthStatus that takes every answer as ok
VerifyAnsweredTrusting(outcome) ==
    /\ wrapper.verifying
    /\ IF outcome = "answered" THEN VerifyGET ELSE UNCHANGED server
    /\ wrapper' = [wrapper EXCEPT !.isAuthenticated = Some(outcome = "answered"),
                                  !.loading = FALSE,
                                  !.verifying = FALSE,
                                  !.formShown = outcome # "answered",
                                  !.by = "verify"]
    /\ UNCHANGED <<gallery, uploader, toasts>>

\* the fetch of checkAuthStatus ends
VerifyAnswered(outcome) ==
    /\ wrapper.verifying
    /\ IF outcome = "answered" THEN VerifyGET ELSE UNCHANGED server
    /\ LET ok == outcome = "answered" /\ ResponseOk(resp')
       IN  wrapper' = [wrapper EXCEPT !.isAuthenticated = Some(ok),
                                      !.loading = FALSE,
                                      !.verifying = FALSE,
                                      !.formShown = ~ok,
                                      !.by = "verify"]
    /\ UNCHANGED <<gallery, uploader, toasts>>

\* the LoginForm calls its onLoginSuccess; a form that is no longer rendered
\* may still do so, from a request it had sent
handleLoginSuccess ==
    /\ wrapper.formShown
    /\ wrapper' = [wrapper EXCEPT !.isAuthenticated = Some(TRUE), !.by = "login"]
    /\ UNCHANGED server
    /\ UNCHANGED <<gallery, uploader, toasts>>

\* a click on the logout button: handleLogout up to its await
handleLogout ==
    /\ Rendered(wrapper) = "children"
    /\ wrapper.logouts < MaxLogouts
    /\ wrapper' = [wrapper EXCEPT !.logouts = @ + 1]
    /\ UNCHANGED server
    /\ UNCHANGED <<gallery, uploader, toasts>>

\* the fetch of a handleLogout call ends
LogoutAnswered(outcome) ==
    /\ wrapper.logouts > 0
    /\ IF outcome = "answered"
       THEN /\ LogoutPOST
            /\ wrapper' = [wrapper EXCEPT !.logouts = @ - 1,
                                          !.isAuthenticated = Some(FALSE),
                                          !.formShown = TRUE,
                                          !.by = "logout"]
       ELSE /\ UNCHANGED server
            /\ wrapper' = [wrapper EXCEPT !.logouts = @ - 1]
    /\ UNCHANGED <<gallery, uploader, toasts>>

InitWrapper ==
    /\ env = [MAX_FILE_SIZE |-> << >>, ADMIN_PASSWORD |-> "pw",
              R2_PUBLIC_URL |-> PublicUrl]
    /\ cookie \in {None, SessionCookie}
    /\ jarOp = "none"
    /\ issued = {}
    /\ store = << >>
    /\ now = StartTime
    /\ req = [handler |-> "none"]
    /\ resp = Response(0, [none |-> TRUE])
    /\ calls = NoCalls
    /\ proc = None
    /\ gen = None
    /\ listing = None
    /\ PagesIdle

VerifyEnded == \E outcome \in FetchOutcomes : VerifyAnswered(outcome)
LogoutEnded == \E outcome \in FetchOutcomes : LogoutAnswered(outcome)

NextWrapper ==
    \/ VerifyEnded \/ handleLoginSuccess \/ handleLogout \/ LogoutEnded
    \/ Login \/ Forge

SpecWrapper == InitWrapper /\ [][NextWrapper]_vars

----------------------------------------------------------------------------

(* useToast *)

\* toasts the list may hold before addToast is no longer explored
MaxToasts == 4

\* the default of addToast's duration
DefaultDuration == 3000

\* the messages copyToClipboard shows
CopiedText == "link copied"
CopyFailedText == "copy failed"

addToast(message, type, duration) ==
    /\ Len(toasts) < MaxToasts
    /\ toasts' = Append(toasts, [id |-> DecStr(now), message |-> message,
                                 type |-> type, duration |-> duration])
    /\ UNCHANGED server
    /\ UNCHANGED <<gallery, uploader, wrapper>>

showSuccess(message) == addToast(message, "success", DefaultDuration)
showError(message) == addToast(message, "error", DefaultDuration)

removeToast(id) ==
    /\ toasts' = SelectSeq(toasts, LAMBDA toast : toast.id # id)
    /\ UNCHANGED server
    /\ UNCHANGED <<gallery, uploader, wrapper>>

\* copyToClipboard after its await: the text was written, or not
Copied == showSuccess(CopiedText)
CopyFailed == showError(CopyFailedText)
\* the ToastManager asks for the removal of a toast it displays
ToastRemoved == \E i \in 1..Len(toasts) : removeToast(toasts[i].id)

InitToasts ==
    /\ env = [MAX_FILE_SIZE |-> << >>, ADMIN_PASSWORD |-> "pw",
              R2_PUBLIC_URL |-> PublicUrl]
    /\ cookie = SessionCookie
    /\ jarOp = "none"
    /\ issued = {}
    /\ store = << >>
    /\ now = StartTime
    /\ req = [handler |-> "none"]
    /\ resp = Response(0, [none |-> TRUE])
    /\ calls = NoCalls
    /\ proc = None
    /\ gen = None
    /\ listing = None
    /\ PagesIdle

NextToasts == Copied \/ CopyFailed \/ ToastRemoved \/ Tick

SpecToasts == InitToasts /\ [][NextToasts]_vars

----------------------------------------------------------------------------

(* What the claims speak of *)

\* the request carries an auth-token cookie whose value is not empty
CarriesSession == cookie # None /\ cookie[1].value # << >>

\* the configured maximum, in bytes
DefaultMaximum == 10485760
ConfiguredMaximum == IF env.MAX_FILE_SIZE = <<"2">> THEN 2 ELSE DefaultMaximum

SizeLimitError == Response(400, ErrorBody("File size exceeds limit"))
UnsupportedTypeError == Response(400, ErrorBody("Invalid file type. Only images are allowed."))
AuthenticationError == Response(401, ErrorBody("Authentication required"))

\* the last request was an upload whose form held a file
UploadedAFile == req.handler = "upload" /\ req.body # None /\ req.body[1].file # None
UploadedFile == req.body[1].file[1]

\* the inputs an upload step can have had, read from what the handler records
\* of them: the body of the request, and the outcome of the encoder when the
\* upload reached processImage (a rejected upload reads no encoder outcome)
StepBodies == IF req'.handler = "upload" THEN {req'.body} ELSE {}
StepEncoderResults == IF proc' = None THEN {None} ELSE {proc'[1].encoded}
\* ... and the outcome of the put: the store's message is in the details of the
\* 500 that follows a put
StepStoreResults ==
    IF calls'.put = 1 /\ resp'.status = 500 THEN {Some(resp'.body.details)}
    ELSE {None}

\* C1, as stated: every upload request whose file is larger than the configured
\* maximum is answered with the size-limit error, HTTP 400, and issues no put.
C1_EveryOversizeIs400 ==
    (UploadedAFile /\ Len(UploadedFile.bytes) > ConfiguredMaximum)
        => (resp = SizeLimitError /\ calls.put = 0)

\* C1, amended: an upload request whose file is larger than the configured
\* maximum issues no put and leaves the store as it was; it is answered with
\* the size-limit error, HTTP 400, when it carries a session and with HTTP 401
\* when it does not; a file of exactly the maximum size never gets the
\* size-limit error.
C1_SizeLimit ==
    [][\A body \in StepBodies,
          encoded \in StepEncoderResults,
          bytes \in HashBytes, putResult \in StepStoreResults :
         (body # None /\ body[1].file # None
            /\ Len(body[1].file[1].bytes) >= ConfiguredMaximum
            /\ UploadPOST(body, encoded, bytes, putResult))
         => LET size == Len(body[1].file[1].bytes)
            IN  /\ size > ConfiguredMaximum
                   => /\ calls'.put = 0
                      /\ store' = store
                      /\ resp' = IF CarriesSession THEN SizeLimitError
                                 ELSE AuthenticationError
                /\ size = ConfiguredMaximum => resp' # SizeLimitError]_vars

\* an authenticated upload of three bytes is refused for its size
C1_Witness ==
    /\ UploadedAFile
    /\ Len(UploadedFile.bytes) = 3
    /\ CarriesSession
    /\ resp = SizeLimitError

\* the five types of the allow-list
ListedTypes == {ImageJpeg, ImagePng, ImageGif, ImageWebp, ImageSvg}

\* C2, as stated: every upload request whose declared type is not on the
\* allow-list is answered with the unsupported-type error, HTTP 400, and
\* issues no put.
C2_EveryUnlistedIs400 ==
    (UploadedAFile /\ UploadedFile.type \notin ListedTypes)
        => (resp = UnsupportedTypeError /\ calls.put = 0)

\* C2, amended: an upload request whose declared type is not on the allow-list
\* issues no put and leaves the store as it was; it is answered with the
\* unsupported-type error, HTTP 400, when it carries a session and its file is
\* not larger than the maximum, with the size-limit error when it carries a
\* session and the file is larger, and with HTTP 401 when it carries no session.
C2_TypeAllowList ==
    [][\A body \in StepBodies,
          encoded \in StepEncoderResults,
          bytes \in HashBytes, putResult \in StepStoreResults :
         (body # None /\ body[1].file # None
            /\ body[1].file[1].type \notin ListedTypes
            /\ UploadPOST(body, encoded, bytes, putResult))
         => /\ calls'.put = 0
            /\ store' = store
            /\ resp' = IF ~CarriesSession THEN AuthenticationError
                       ELSE IF Len(body[1].file[1].bytes) > ConfiguredMaximum
                            THEN SizeLimitError
                            ELSE UnsupportedTypeError]_vars

\* an authenticated upload of a small text file is refused for its type
C2_Witness ==
    /\ UploadedAFile
    /\ UploadedFile = TxtFile
    /\ CarriesSession
    /\ resp = UnsupportedTypeError

\* C3: an upload request without a cookie, or with an empty one, is answered
\* 401 whatever its body is (unreadable, without file, oversized, of a type not
\* listed, valid); nothing is sent to the store or the encoder and the store
\* stays as it was.
C3_UnauthenticatedUploadRejected ==
    [][\A body \in StepBodies,
          encoded \in StepEncoderResults,
          bytes \in HashBytes, putResult \in StepStoreResults :
         ((cookie = None \/ cookie[1].value = << >>)
            /\ UploadPOST(body, encoded, bytes, putResult))
         => /\ resp' = AuthenticationError
            /\ calls' = NoCalls
            /\ store' = store]_vars

\* an upload of a valid PNG that carried an empty cookie was answered 401
C3_Witness ==
    /\ UploadedAFile
    /\ UploadedFile = PngFile
    /\ cookie # None
    /\ cookie[1].value = << >>
    /\ resp.status = 401

Authenticated == Response(200, [authenticated |-> TRUE])
NotAuthenticated == Response(401, [authenticated |-> FALSE])

\* the body of a login request that gives the configured password
CorrectLogin(body) ==
    env.ADMIN_PASSWORD # "" /\ body = Some([password |-> Some(env.ADMIN_PASSWORD)])

\* C4: verify answers false/401 while the jar holds no cookie, true/200 when
\* the jar was last written by a login with the correct password, and
\* false/401 when it was last written by a logout; a login with the correct
\* password and a logout do write the jar.
C4_VerifyFollowsLoginLogout ==
    [][/\ VerifyGET
          => /\ cookie = None => resp' = NotAuthenticated
             /\ jarOp = "login" => resp' = Authenticated
             /\ jarOp = "logout" => resp' = NotAuthenticated
       /\ \A body \in LoginBodies, bytes \in TokenBytes :
            (LoginPOST(body, bytes) /\ CorrectLogin(body))
            => (jarOp' = "login" /\ resp'.status = 200)
       /\ LogoutPOST => jarOp' = "logout"]_vars

\* a verify right after a login was answered true/200
C4_Witness ==
    /\ req.handler = "verify"
    /\ jarOp = "login"
    /\ resp = Authenticated

\* C5: with ADMIN_PASSWORD configured, a login request whose password is not
\* that password (or is missing) is answered 401 and leaves the jar, and the
\* set of issued tokens, as they were.
C5_WrongPasswordSetsNoCookie ==
    [][\A body \in LoginBodies, bytes \in TokenBytes :
         (LoginPOST(body, bytes)
            /\ env.ADMIN_PASSWORD # ""
            /\ body # None
            /\ body[1].password # Some(env.ADMIN_PASSWORD))
         => /\ resp' = Response(401, ErrorBody("Invalid password"))
            /\ cookie' = cookie
            /\ issued' = issued]_vars

\* a client without cookie sent a wrong password, got 401 and has no cookie
C5_Witness ==
    /\ req.handler = "login"
    /\ req.body = Some([password |-> Some("no")])
    /\ resp.status = 401
    /\ cookie = None

\* a form the upload handler accepts: a file of a listed type that is not
\* larger than the maximum
ValidUpload(body) ==
    /\ body # None
    /\ body[1].file # None
    /\ body[1].file[1].type \in ListedTypes
    /\ Len(body[1].file[1].bytes) <= ConfiguredMaximum

\* C6: verify reports a request as authenticated, and the upload handler lets
\* it past the gate, exactly when it carries a cookie with a non-empty value; a
\* valid upload carrying a non-empty value that login never issued is stored and
\* answered 200 when the store accepts the put.
C6_AnyNonEmptyCookiePasses ==
    [][/\ VerifyGET => resp' = IF CarriesSession THEN Authenticated ELSE NotAuthenticated
       /\ \A body \in StepBodies,
             encoded \in StepEncoderResults,
             bytes \in HashBytes, putResult \in StepStoreResults :
            UploadPOST(body, encoded, bytes, putResult)
            => /\ (resp' = AuthenticationError) <=> ~CarriesSession
               /\ (CarriesSession /\ cookie[1].value \notin issued
                     /\ ValidUpload(body) /\ putResult = None)
                  => /\ resp'.status = 200
                     /\ calls'.put = 1
                     /\ resp'.body.data.key \in Keys(store')]_vars

\* an upload was stored although login has never issued a token
C6_Witness ==
    /\ UploadedAFile
    /\ resp.status = 200
    /\ issued = {}
    /\ cookie = Some([value |-> <<"x">>, maxAge |-> 0])
    /\ resp.body.data.key \in Keys(store)

\* C7: processImage called without the compress flag returns the buffer and
\* the MIME type it was given and does not invoke the encoder.
C7_NoCompressIsIdentity ==
    (req.handler = "processImage" /\ ~proc[1].options.compressToWebp)
        => /\ proc[1].out.buffer = proc[1].buffer
           /\ proc[1].out.mimeType = proc[1].mimeType
           /\ calls.enc = 0

\* processImage was called on a PNG of two bytes without the compress flag
C7_Witness ==
    /\ req.handler = "processImage"
    /\ ~proc[1].options.compressToWebp
    /\ proc[1].mimeType = ImagePng
    /\ proc[1].buffer = <<1, 2>>
    /\ proc[1].out.buffer = <<1, 2>>

\* C8: an SVG passes the normalizer unchanged also with the compress flag set,
\* and the object stored for an SVG upload holds the uploaded bytes.
C8_SvgNeverReencoded ==
    (req.handler = "upload" /\ proc # None /\ proc[1].mimeType = ImageSvg
        /\ proc[1].options.compressToWebp)
        => /\ proc[1].out.buffer = proc[1].buffer
           /\ proc[1].out.mimeType = ImageSvg
           /\ resp.status = 200
              => ObjectAt(store, resp.body.data.key).Body = UploadedFile.bytes

\* C9, as stated: when the encoder fails, processImage returns what it was
\* given, the put is issued and the upload is answered 200 with the original
\* MIME type.
C9_EncoderFailureAlways200 ==
    (req.handler = "upload" /\ proc # None /\ calls.enc = 1 /\ proc[1].encoded = None)
        => /\ proc[1].out.buffer = proc[1].buffer
           /\ proc[1].out.mimeType = proc[1].mimeType
           /\ calls.put = 1
           /\ resp.status = 200
           /\ resp.body.data.mimeType = proc[1].mimeType

\* C9, amended: when the encoder fails, processImage returns the buffer and
\* the MIME type it was given and the extension of that type, and the put is
\* issued with them; the upload is answered 200 with the original MIME type
\* when the store accepts the put, and 500 with the store's message, not the
\* encoder's, when the store refuses it.
C9_EncoderFailureIsSwallowed ==
    [][\A body \in StepBodies,
          bytes \in HashBytes, putResult \in StepStoreResults :
         (UploadPOST(body, None, bytes, putResult) /\ calls'.enc = 1)
         => LET file == body[1].file[1]
            IN  /\ proc'[1].out = [buffer |-> file.bytes, mimeType |-> file.type,
                                   ext |-> ExtensionOrBin(file.type)]
                /\ calls'.put = 1
                /\ putResult = None
                   => /\ resp'.status = 200
                      /\ resp'.body.data.mimeType = file.type
                      /\ resp'.body.data.size = Len(file.bytes)
                      /\ ObjectAt(store', resp'.body.data.key).Body = file.bytes
                      /\ ObjectAt(store', resp'.body.data.key).ContentType = file.type
                /\ putResult # None
                   => /\ resp' = Response(500, ErrorDetailsBody("Upload failed",
                                                                putResult[1]))
                      /\ store' = store]_vars

\* the encoder failed on a PNG and the upload was answered 200 as image/png
C9_Witness ==
    /\ req.handler = "upload"
    /\ proc # None
    /\ calls.enc = 1
    /\ proc[1].encoded = None
    /\ resp.status = 200
    /\ resp.body.data.mimeType = ImagePng

\* the characters of [A-Za-z0-9.-], in a row
ClassChars == <<"A", "B", "C", "D", "E", "F", "G", "H", "I", "J", "K", "L", "M", "N", "O", "P", "Q", "R", "S", "T", "U", "V", "W", "X", "Y", "Z", "a", "b", "c", "d", "e", "f", "g", "h", "i", "j", "k", "l", "m", "n", "o", "p", "q", "r", "s", "t", "u", "v", "w", "x", "y", "z", "0", "1", "2", "3", "4", "5", "6", "7", "8", "9", ".", "-">>
InClass(c) == \E i \in 1..Len(ClassChars) : ClassChars[i] = c

\* C10: in default mode the key is the decimal timestamp, an underscore, and
\* the name with each character outside [A-Za-z0-9.-] replaced by '_' and each
\* other character in its place; "a b.png" at 41 gives "41_a_b.png".
C10_DefaultKey ==
    (req.handler = "generateFileName" /\ ~gen[1].useHash)
        => LET name == gen[1].originalName
               key == gen[1].out
               t == DecStr(gen[1].timestamp)
           IN  /\ Len(key) = Len(t) + 1 + Len(name)
               /\ SubSeq(key, 1, Len(t)) = t
               /\ key[Len(t) + 1] = "_"
               /\ \A i \in 1..Len(name) :
                    key[Len(t) + 1 + i] = IF InClass(name[i]) THEN name[i] ELSE "_"
               /\ (name = NameSpacePng /\ gen[1].timestamp = 41)
                  => key = <<"4", "1", "_", "a", "_", "b", ".", "p", "n", "g">>
               /\ (name = NameSpacePng /\ gen[1].timestamp = 42)
                  => key = <<"4", "2", "_", "a", "_", "b", ".", "p", "n", "g">>

\* generateFileName was called in default mode on "a b.png" at 41
C10_Witness ==
    /\ req.handler = "generateFileName"
    /\ ~gen[1].useHash
    /\ gen[1].originalName = NameSpacePng
    /\ gen[1].timestamp = 41
    /\ Len(gen[1].out) = 10


----------------------------------------------------------------------------
(* Keys and listings *)

\* s.endsWith(p)
EndsWith(s, p) == Len(s) >= Len(p) /\ SubSeq(s, Len(s) - Len(p) + 1, Len(s)) = p
IsHex(s) == \A i \in 1..Len(s) : \E j \in 1..16 : HexDigits[j] = s[i]

\* the last request was an upload that was answered 200
UploadSucceeded == req.handler = "upload" /\ resp.status = 200

\* C11: the key of every stored upload ends with a dot and the extension the
\* normalizer returned, whatever the name of the file, and in random mode the
\* key is 32 hexadecimal characters, a dot and that extension.
C11_KeyEndsWithNormalizerExtension ==
    UploadSucceeded
    => LET key == resp.body.data.key
           ext == proc[1].out.ext
       IN  /\ EndsWith(key, <<".">> \o ext)
           /\ proc[1].options.useHashName
              => /\ Len(key) = 32 + 1 + Len(ext)
                 /\ IsHex(SubSeq(key, 1, 32))

\* listImages has been called directly
ListImagesCalled == req.handler = "listImages"
\* the keys of a sequence of listed images
ListedKeys(images) == [i \in 1..Len(images) |-> images[i].key]
Smaller(a, b) == IF a < b THEN a ELSE b

\* C12: listImages(prefix, limit, offset) issues one list call and returns the
\* elements at the positions offset .. offset+limit-1 (counted from 0) of what
\* the store returns for MaxKeys = min(offset+limit, 1000), in that order; with
\* offset 0, limit 2 and five stored objects these are the first two objects
\* of the store's order.
C12_ListImagesIsSliceOfOneCall ==
    ListImagesCalled
    => LET call == listing[1]
           contents == ListObjectsV2(store, call.prefix,
                                     Smaller(call.offset + call.maxKeys, 1000))
           end == Smaller(call.offset + call.maxKeys, Len(contents))
       IN  /\ calls.list = 1
           /\ Len(call.out) = IF end > call.offset THEN end - call.offset ELSE 0
           /\ \A i \in 1..Len(call.out) :
                 /\ call.out[i].key = contents[call.offset + i].Key
                 /\ call.out[i].size = Len(contents[call.offset + i].Body)
           /\ (call.offset = 0 /\ call.maxKeys = 2 /\ call.prefix = << >>
                 /\ Len(store) = 5)
              => ListedKeys(call.out) = <<store[1].Key, store[2].Key>>

\* listImages('', 2, 1) on a bucket of five objects returned the second object
C12_Witness ==
    /\ ListImagesCalled
    /\ listing[1].prefix = << >>
    /\ listing[1].maxKeys = 2
    /\ listing[1].offset = 1
    /\ Len(store) = 5
    /\ ListedKeys(listing[1].out) = <<store[2].Key, store[3].Key>>

\* the last request was a list request that was answered 200
ListSucceeded == req.handler = "list" /\ resp.status = 200
\* the offset a list request asks for, 0 when the URL has none
RequestedOffset(query) ==
    IF query.offset = None THEN 0 ELSE ParseInt(query.offset[1])
\* the positions from .. to-1, counted from 0, of a sequence
Positions(seq, from, to) == SubSeq(seq, from + 1, Smaller(to, Len(seq)))

\* C13: a list request with limit L and offset O is answered with the objects
\* at the positions O .. O+L-1 of the store's listing, so that page 2 of the
\* gallery shows none of the objects of page 1.
C13_HandlerHonoursOffset ==
    (ListSucceeded /\ QueryLimit(req.query) # NaN)
    => LET L == QueryLimit(req.query)
           O == RequestedOffset(req.query)
           wanted == Positions(store, O, O + L)
       IN  /\ ListedKeys(resp.body.data) = [i \in 1..Len(wanted) |-> wanted[i].Key]
           /\ req.query = LoadImagesQuery(2)
              => \A i \in 1..Len(resp.body.data) :
                    \A j \in 1..Smaller(ImagesPerPage, Len(store)) :
                       resp.body.data[i].key # store[j].Key

\* the number of objects one list call can return
FirstThousand == 1000
\* the objects with a prefix, in the store's order
WithPrefix(bucket, prefix) == SelectSeq(bucket, LAMBDA o : StartsWith(o.Key, prefix))

\* C14: whatever the bucket holds, listImages with an offset of 1000 or more
\* returns the empty list, and no call of listImages, direct or through the
\* list handler, returns an object that is not among the first 1000 objects
\* (with the prefix asked for) of the store's order.
C14_NothingBeyondFirstPage ==
    listing # None
    => LET call == listing[1]
           matching == WithPrefix(store, call.prefix)
           reachable == {matching[i].Key : i \in 1..Smaller(FirstThousand, Len(matching))}
       IN  /\ call.offset >= FirstThousand => call.out = << >>
           /\ \A i \in 1..Len(call.out) : call.out[i].key \in reachable
           /\ calls.list = 1

\* listImages('', 2, 1000) on a bucket of 1002 objects returned nothing
C14_Witness ==
    /\ ListImagesCalled
    /\ Len(store) = FirstThousand + 2
    /\ listing[1].prefix = << >>
    /\ listing[1].offset = FirstThousand
    /\ listing[1].maxKeys = 2
    /\ listing[1].out = << >>

----------------------------------------------------------------------------
(* Deleting, uploading *)

\* the inputs a delete step can have had, read from what the handler records
\* of them: the body of the request, and the store's answer to the delete
\* call (its message is in the details of the 500 that follows the call)
StepDeleteBodies == IF req'.handler = "delete" THEN {req'.body} ELSE {}
StepDeleteResults ==
    IF calls'.del = 1 /\ resp'.status = 500 THEN {Some(resp'.body.details)}
    ELSE {None}
\* the body of a delete request names a key
NamesAKey(body) == body # None /\ body[1].key # None /\ body[1].key # Some(<< >>)
DeleteSuccess == Response(200, [success |-> TRUE, message |-> "Image deleted successfully"])

C16_MetadataDescribesStoredObject ==
    UploadSucceeded
    => LET data == resp.body.data
       IN  /\ data.key \in Keys(store)
           /\ data.url = env.R2_PUBLIC_URL \o <<"/">> \o data.key
           /\ data.size = Len(ObjectAt(store, data.key).Body)
           /\ data.mimeType = ObjectAt(store, data.key).ContentType

\* a PNG of two bytes was re-encoded to one byte, and the size returned is 1
C16_Witness ==
    /\ UploadSucceeded
    /\ UploadedFile = PngFile
    /\ resp.body.data.size = 1
    /\ resp.body.data.mimeType = ImageWebp
    /\ ObjectAt(store, resp.body.data.key).Body = <<0>>

\* C17: an upload request issues one put when it carries a session and its
\* form is valid and none otherwise, never more than one; a put the store
\* refuses is followed by the 500 at once, with the store as it was.
C17_AtMostOnePut ==
    [][\A body \in StepBodies, encoded \in StepEncoderResults,
          bytes \in HashBytes, putResult \in StepStoreResults :
         UploadPOST(body, encoded, bytes, putResult)
         => /\ calls'.put = IF CarriesSession /\ ValidUpload(body) THEN 1 ELSE 0
            /\ calls'.del = 0 /\ calls'.list = 0
            /\ calls'.put = 0 => store' = store
            /\ putResult # None
               => /\ calls'.put = 1
                  /\ store' = store
                  /\ resp' = Response(500, ErrorDetailsBody("Upload failed",
                                                            putResult[1]))]_vars

\* the store refused the put of a valid upload: one put, a 500, an empty store
C17_Witness ==
    /\ UploadedAFile
    /\ CarriesSession
    /\ calls.put = 1
    /\ resp = Response(500, ErrorDetailsBody("Upload failed", "AccessDenied"))
    /\ store = << >>

----------------------------------------------------------------------------
(* Statuses, effects on the store *)

\* the answers of the store that are failures
StoreFailures == StoreResults \ {None}
StepQueries == IF req'.handler = "list" THEN {req'.query} ELSE {}

\* why a request was refused, where it was; jar is the cookie it carried
UploadValidationFailure(request, jar) ==
    /\ request.handler = "upload"
    /\ IsAuthenticated(jar)
    /\ request.body # None
    /\ \/ request.body[1].file = None
       \/ Len(request.body[1].file[1].bytes) > ConfiguredMaximum
       \/ request.body[1].file[1].type \notin ListedTypes
DeleteValidationFailure(request) ==
    request.handler = "delete" /\ request.body # None /\ ~NamesAKey(request.body)
UploadAuthFailure(request, jar) == request.handler = "upload" /\ ~IsAuthenticated(jar)
LoginAuthFailure(request) ==
    /\ request.handler = "login"
    /\ request.body # None
    /\ env.ADMIN_PASSWORD # ""
    /\ request.body[1].password # Some(env.ADMIN_PASSWORD)

\* the status of the answer to a request, if it was an upload, a list, a
\* delete or a login
StatusesAsDocumented(request, answer, jar) ==
    request.handler \in {"upload", "list", "delete", "login"}
    => /\ answer.status \in {200, 400, 401, 500}
       /\ answer.status = 400
          <=> (UploadValidationFailure(request, jar) \/ DeleteValidationFailure(request))
       /\ answer.status = 401
          <=> (UploadAuthFailure(request, jar) \/ LoginAuthFailure(request))

\* C18: the upload, list, delete and login handlers answer 200, 400, 401 or
\* 500; 400 exactly for a missing file, a file too large, a type not listed
\* or a missing key, 401 exactly for a missing session or a wrong password;
\* a put, delete or list call the store refuses is answered 500 with the store's
\* message in details.
C18_StatusesAndStoreFailures ==
    [][/\ ~(Forge \/ Tick) => StatusesAsDocumented(req', resp', cookie)
       /\ \A body \in StepBodies, encoded \in StepEncoderResults,
             bytes \in HashBytes, failure \in StoreFailures :
            UploadPOST(body, encoded, bytes, failure)
            => resp' = Response(500, [error |-> "Upload failed",
                                      details |-> failure[1]])
       /\ \A body \in StepDeleteBodies, failure \in StoreFailures :
            DeleteRequest(body, failure)
            => resp' = Response(500, [error |-> "Failed to delete image",
                                      details |-> failure[1]])
       /\ \A query \in StepQueries, failure \in StoreFailures :
            ListGET(query, failure)
            => resp' = Response(500, [error |-> "Failed to list images",
                                      details |-> failure[1]])]_vars

\* the store refused a list call, and the answer is a 500 with its message
C18_Witness ==
    /\ req.handler = "list"
    /\ calls.list = 1
    /\ resp = Response(500, [error |-> "Failed to list images",
                             details |-> "AccessDenied"])

\* C19: an upload in default mode that the store accepts is stored under a key
\* the bucket does not hold yet, so it replaces no object and the bucket holds
\* one object more, also when an upload of a file of the same name was stored
\* in the same millisecond.
C19_DefaultKeysNeverCollide ==
    [][\A body \in StepBodies, encoded \in StepEncoderResults, bytes \in HashBytes :
         (UploadPOST(body, encoded, bytes, None)
            /\ calls'.put = 1
            /\ ~proc'[1].options.useHashName)
         => /\ resp'.body.data.key \notin Keys(store)
            /\ Len(store') = Len(store) + 1]_vars

\* a step of one of the handlers that are to leave the store alone: list, the
\* three auth endpoints, an upload that is not answered 200
LeavesStoreAlone ==
    \/ req'.handler \in {"list", "login", "logout", "verify"}
    \/ req'.handler = "upload" /\ resp'.status # 200

\* C20: the store changes only by an upload that is answered 200, which adds
\* one object and touches no other, and by a delete call, which removes the
\* object of its key and no other; the bytes and the content type under a key
\* that stays are the same before and after every step; list, login, logout,
\* verify and every upload that is not answered 200 leave the store as it was.
C20_StoreChangesOnlyByUploadAndDelete ==
    [][~(Tick \/ Forge)
       => /\ (req'.handler = "upload" /\ resp'.status = 200)
             => /\ Len(store') = Len(store) + 1
                /\ Keys(store') = Keys(store) \cup {resp'.body.data.key}
          /\ (req'.handler = "delete" /\ resp'.status = 200)
             => store' = DeleteFrom(store, req'.body[1].key[1])
          /\ (req'.handler = "delete" /\ resp'.status # 200) => store' = store
          /\ LeavesStoreAlone => store' = store
          /\ \A key \in Keys(store) \cap Keys(store') :
                /\ ObjectAt(store', key).Body = ObjectAt(store, key).Body
                /\ ObjectAt(store', key).ContentType = ObjectAt(store, key).ContentType
      ]_vars

----------------------------------------------------------------------------
(* Listing and deleting without a session *)

\* C21: a list or delete request is never answered 401 and its result is
\* decided by its inputs and the bucket alone: whatever cookie the client
\* holds, none included, a delete naming a key issues the delete call and,
\* the store accepting it, removes the object and is answered 200, and a list
\* the store accepts is answered 200 with the images of the bucket.
C21_ListAndDeleteAskNoSession ==
    [][/\ req'.handler \in {"list", "delete"} => resp'.status # 401
       /\ \A body \in StepDeleteBodies, delResult \in StepDeleteResults :
            (NamesAKey(body) /\ DeleteRequest(body, delResult))
            => /\ calls'.del = 1
               /\ delResult = None
                  => /\ store' = DeleteFrom(store, body[1].key[1])
                     /\ resp' = DeleteSuccess
       /\ \A query \in StepQueries :
            ListGET(query, None)
            => resp' = Response(200,
                   [success |-> TRUE,
                    data |-> ListImages(store, env.R2_PUBLIC_URL, QueryPrefix(query),
                                        QueryLimit(query), 0)])]_vars

\* a client without a cookie deleted an object that an upload had stored
C21_Witness ==
    /\ cookie = << >>
    /\ req.handler = "delete"
    /\ NamesAKey(req.body)
    /\ req.body[1].key[1] # <<"g", "o", "n", "e">>
    /\ calls.del = 1
    /\ resp = DeleteSuccess
    /\ store = << >>
----------------------------------------------------------------------------
(* The gallery *)

\* the delete request the gallery sends for a key
GalleryDeleteRequest(key) == [handler |-> "delete", body |-> Some([key |-> Some(key)])]

\* C22: a deleteSelectedImages loop sends the delete request of its next key
\* whenever its fetch ends, however that fetch ended: failed, answered with
\* an error or answered 200; such a step opens no dialog and leaves the error
\* of the page as it was; the loop goes through its keys in order and ends
\* only when loadImages has been called after the last key and has ended, and
\* the selection is empty then.
C22_BatchDeleteRunsThrough ==
    [][/\ \A i \in 1..Len(gallery.loops), outcome \in FetchOutcomes,
             delResult \in StoreResults :
            (gallery'.loops # gallery.loops /\ LoopDeleteAnswer(i, outcome, delResult))
            => LET loop == gallery.loops[i]
               IN  /\ outcome = "answered"
                      => /\ req' = GalleryDeleteRequest(loop.keys[loop.next])
                         /\ calls'.del = 1
                   /\ gallery'.alert = None
                   /\ gallery'.error = gallery.error
                   /\ Len(gallery'.loops) = Len(gallery.loops)
                   /\ gallery'.loops[i].keys = loop.keys
                   /\ gallery'.loops[i].next = loop.next + 1
                   /\ gallery'.loops[i].reloading = (loop.next = Len(loop.keys))
       /\ \A i \in 1..Len(gallery.loops), outcome \in FetchOutcomes,
             listResult \in StoreResults :
            (gallery'.loops # gallery.loops /\ LoopReloadAnswer(i, outcome, listResult))
            => /\ gallery.loops[i].next = Len(gallery.loops[i].keys) + 1
               /\ outcome = "answered" => req'.handler = "list"
               /\ gallery'.selectedImages = << >>
               /\ Len(gallery'.loops) = Len(gallery.loops) - 1
       /\ Len(gallery'.loops) < Len(gallery.loops)
          => \E i \in 1..Len(gallery.loops) :
                /\ gallery.loops[i].reloading
                /\ gallery'.loops = RemoveAt(gallery.loops, i)]_vars

\* a loop over two keys has sent both requests: the first key is still in the
\* bucket, its request having failed, the second was deleted after it, no
\* dialog was opened, and the loop is in loadImages
C22_Witness ==
    /\ Len(gallery.loops) = 1
    /\ gallery.loops[1].keys = <<FilledKey(1), FilledKey(2)>>
    /\ gallery.loops[1].next = 3
    /\ gallery.loops[1].reloading
    /\ FilledKey(1) \in Keys(store)
    /\ FilledKey(2) \notin Keys(store)
    /\ req = GalleryDeleteRequest(FilledKey(2))
    /\ resp = DeleteSuccess
    /\ gallery.alert = None
    /\ gallery.loading


\* C28: whenever the gallery shows its images, every selected key is the key
\* of an image it shows.
C28_SelectionIsDisplayed ==
    GalleryShown
    => Elements(gallery.selectedImages) \subseteq Elements(ImageKeys(gallery.images))


----------------------------------------------------------------------------
(* The uploader *)

NoPreviewProcessing(u) ==
    \A i \in 1..Len(u.previewImages) : ~u.previewImages[i].isProcessing

\* C23: at most one uploadPreviewImages call runs, so at most one upload
\* request of the page is in flight, and isUploading is true while it runs; a
\* call starts only when none runs and no preview is processing, and it is
\* to upload the files of the previews in their order; each answer is that of
\* the request for the first file left, and the next request is for the file
\* after it.
C23_OneUploadAtATime ==
    [][/\ Len(uploader'.runs) <= 1
       /\ uploader'.runs # << >> => uploader'.isUploading
       /\ Len(uploader'.runs) > Len(uploader.runs)
          => /\ uploader.runs = << >>
             /\ NoPreviewProcessing(uploader)
             /\ uploader'.runs[1].todo = PreviewFiles(uploader.previewImages)
       /\ \A i \in 1..Len(uploader.runs), outcome \in FetchOutcomes,
             encoded \in StepEncoderResults, bytes \in HashBytes,
             putResult \in StepStoreResults :
            (uploader'.runs # uploader.runs
               /\ UploadAnswer(i, outcome, encoded, bytes, putResult))
            => LET todo == uploader.runs[i].todo
               IN  /\ outcome = "answered"
                      => /\ req'.handler = "upload"
                         /\ req'.body[1].file = Some(Head(todo))
                   /\ IF Len(todo) > 1
                      THEN uploader'.runs[i].todo = Tail(todo)
                      ELSE uploader'.runs = << >>]_vars

\* the loop over the previews of an SVG and a PNG has had the answer for the
\* SVG and waits for that of the PNG
C23_Witness ==
    /\ Len(uploader.runs) = 1
    /\ uploader.runs[1].todo = <<PngFile>>
    /\ PreviewFiles(uploader.previewImages) = <<SvgFile, PngFile>>
    /\ uploader.isUploading
    /\ req.handler = "upload"
    /\ req.body[1].file = Some(SvgFile)
    /\ resp.status = 200

\* the uploader after the last statement of uploadPreviewImages
UploadLoopEnded ==
    /\ uploader.runs = << >>
    /\ ~uploader.isUploading
    /\ uploader.previewImages = << >>

\* C26: a running uploadPreviewImages call reaches its end, whatever the
\* answers to its requests are, and isUploading is false and the preview list
\* empty then.
C26_UploadLoopEnds == (uploader.runs # << >>) ~> UploadLoopEnded

\* the loop has ended although the upload of its last file threw, and an
\* object uploaded earlier is in the bucket
C26_Witness ==
    /\ UploadLoopEnded
    /\ uploader.alert = Some(<<UploadErrorText, PngFile.name, NetworkErrorText>>)
    /\ req.handler = "upload"
    /\ req.body[1].file = Some(SvgFile)
    /\ store # << >>

\* C27: when no updateCompressionQuality call is running, a preview that is compressible, has a compressed preview and whose last
\* compression was not rejected is not marked as processing, and its
\* compressed preview is the one computed for the quality the slider shows.
C27_LastQualityWins ==
    (uploader.moves = << >> /\ uploader.picks = << >>)
    => \A i \in 1..Len(uploader.previewImages) :
         LET preview == uploader.previewImages[i]
         IN  (/\ Compressible(preview.file, uploader.enableWebpCompression)
              /\ preview.compressed # None
              /\ ~preview.rejected)
             => /\ ~preview.isProcessing
                /\ preview.compressed = Some(uploader.quality)


\* the JSON bodies of a delete request that have no key or an empty one
KeylessBodies == {Some([key |-> None]), Some([key |-> Some(<< >>)])}

\* C24: a delete request whose JSON body has no key, or an empty key, is
\* answered with status 400 and "No key provided"; the store gets no delete
\* call and the bucket is as it was.
C24_KeylessDeleteRefused ==
    [][\A body \in KeylessBodies, delResult \in StoreResults :
         DeleteRequest(body, delResult)
         => /\ resp'.status = 400
            /\ resp'.body = ErrorBody("No key provided")
            /\ calls'.del = 0
            /\ store' = store]_vars

\* a delete request with an empty key has been refused while the bucket holds
\* an object
C24_Witness ==
    /\ req.handler = "delete"
    /\ req.body = Some([key |-> Some(<< >>)])
    /\ resp.status = 400
    /\ calls.del = 0
    /\ store # << >>


\* C25: while ADMIN_PASSWORD is unset or empty, every login request is
\* answered with status 500, whatever its body is, and leaves the cookie jar
\* as it was; no token has ever been issued.
C25_UnsetPasswordRefusesLogin ==
    [][env.ADMIN_PASSWORD = ""
       => /\ issued' = {}
          /\ jarOp' # "login"
          /\ \A body \in LoginBodies, bytes \in TokenBytes :
               LoginPOST(body, bytes)
               => /\ resp'.status = 500
                  /\ "success" \notin DOMAIN resp'.body
                  /\ cookie' = cookie]_vars

\* a login with the empty password has been refused where ADMIN_PASSWORD is
\* the empty string
C25_Witness ==
    /\ env.ADMIN_PASSWORD = ""
    /\ req.handler = "login"
    /\ req.body = Some([password |-> Some("")])
    /\ resp = Response(500, ErrorBody("Server configuration error: ADMIN_PASSWORD not set"))
    /\ cookie = None
    /\ issued = {}


\* C29: AuthWrapper renders the children only where isAuthenticated is true;
\* isAuthenticated becomes true only when checkAuthStatus gets an ok answer
\* of verify or when the LoginForm calls onLoginSuccess; and when a logout
\* request of the logout button has been answered, the LoginForm is rendered.
C29_ChildrenOnlyWhenAuthenticated ==
    [][/\ Rendered(wrapper') = "children" => wrapper'.isAuthenticated = Some(TRUE)
       /\ (wrapper'.isAuthenticated = Some(TRUE) /\ wrapper.isAuthenticated # Some(TRUE))
          => \/ /\ wrapper.verifying /\ ~wrapper'.verifying
                /\ req'.handler = "verify"
                /\ resp'.status = 200
             \/ handleLoginSuccess
       /\ LogoutAnswered("answered") => Rendered(wrapper') = "LoginForm"]_vars

\* the children were rendered after an ok answer of verify, the logout button
\* was used and its request answered: the LoginForm is rendered
C29_Witness ==
    /\ Rendered(wrapper) = "LoginForm"
    /\ wrapper.by = "logout"
    /\ wrapper.logouts = 0
    /\ req.handler = "logout"
    /\ cookie = None


\* C30: the toasts of the list have pairwise distinct ids, and removeToast
\* takes exactly one toast out of the list and leaves the others in their
\* order.
C30_ToastIdsDistinct ==
    [][/\ \A i, j \in 1..Len(toasts') : i # j => toasts'[i].id # toasts'[j].id
       /\ \A k \in 1..Len(toasts) :
            removeToast(toasts[k].id) => toasts' = RemoveAt(toasts, k)]_vars

====
